---- MODULE Spec2Model ----
(***************************************************************************)
(* Hardware-control subsystem of 3dprintd: the HwCtrl job state machine,   *)
(* the Executor thread with its control / manual channels, the per-job     *)
(* Decoder thread, the Pi (thermal) thread, the EStop worker and the       *)
(* error bus.  Every action is one atomic step of one thread; a HwCtrl     *)
(* call is atomic because it holds the state lock from its first to its    *)
(* last statement.                                                         *)
(***************************************************************************)
EXTENDS Integers, Sequences, FiniteSets, TLC

VARIABLES
    hw_state,       \* hw::state::State.state of HwCtrl
    hw_job,         \* id of the job printing_state belongs to (0 = None)
    lock_poisoned,  \* the RwLock around State was poisoned by a panicking caller
    api_ret,        \* what the last HwCtrl call returned
    ctrl_chan,      \* executor_ctrl channel (unbounded, FIFO)
    manual_chan,    \* executor_manual channel (unbounded, FIFO)
    exec_pc,        \* position of the Executor thread in executor_loop
    exec_state,     \* execute::State.inner of the Executor
    exec_job,       \* execute::State.data (0 = None, else the job it decodes)
    exec_then,      \* where the Executor continues after joining the decoder
    exec_cur,       \* the action the Executor is executing
    exec_dstate,    \* DecoderState kept in InnerState::Stopped
    exec_panic,     \* panic message of the Executor thread ("" = none)
    exec_count,     \* actions the Executor has taken from the decoder of its job
    current_line,   \* ExecutorCtrl.line, the atomic that state_info() reads
    dec_pc,         \* position of the decoder thread in decoder_loop
    dec_path,       \* file the FileDecoder reads
    dec_pos,        \* lines the Parser has consumed (next_line - 1)
    dec_buf,        \* FileDecoder.buf
    dec_state,      \* DecoderState inside the FileDecoder
    gcode_chan,     \* bounded action channel decoder -> Executor
    dec_exit_chan,  \* decoder_exit channel (capacity 1)
    pi_chan,        \* command channel of the Pi thread
    hotend_target,  \* AtomicTargetTemp of the hotend (0 = None)
    bed_target,     \* AtomicTargetTemp of the bed (0 = None)
    pi_waiting,     \* parked waiters: hotend_waiting, bed_waiting, bed_min_waiting
    exec_reply,     \* one-shot reply channel of the temperature wait
    heaters_off,    \* PiThreadData::estop has written the heaters off
    dev_no_pi,      \* the build has feature "dev_no_pi"
    estop_chan,     \* channel of the EStop worker
    estop_pc,       \* position of the EStop worker
    estop_issued,   \* overtravel windows of the estop calls made on the driver
    estop_in_exec,  \* one of them was made with the Executor inside
                    \* Executor::exec
    estop_in_job,   \* one of them answered an estop() called during a job
    estop_calls,    \* HwCtrl::estop calls that sent their message
    errors,         \* error bus: errors sent on error_send, in order
    njobs,          \* jobs accepted by try_print so far
    stopped_upto,   \* highest job id that was current at some stop() call
    failed_upto,    \* highest job id one of whose MoveAll failed
    ended_upto,     \* highest job id whose decoder reached the end of its file
                    \* or yielded an error
    fd,             \* a FileDecoder on its own: parser position and buffer
    fd_out,         \* what its next() has returned so far, in order
    hotend_temp,    \* temperature of the hotend, as RevPi::read_hotend_temp
                    \* would return it
    gd,             \* an inner_decoder::Decoder on its own: its State and the
                    \* motor configuration of its Settings
    gd_out,         \* the code it decoded last and what decode returned
    gd_hist,        \* history: codes decoded, and the signed step deltas of
                    \* the moves it accepted, summed per axis
    shared_pos_z,   \* SharedRawPos.z: raw position of the Z axis in steps
    dstate_z_hotend_location,
                    \* z_hotend_location of the DecoderState the Executor
                    \* keeps and hands to the decoder of the next job
    shared_z_hotend_location,
                    \* ExecutorCtrl.shared_z_hotend_location, read by pos_z
    z_hotend_referenced,
                    \* history: a ReferenceZAxisHotend was processed and the
                    \* Z axis has not moved since
    ref_call,       \* history: number, arguments and result of the last
                    \* try_reference_axis / try_reference_z_hotend call
    pi_pc,          \* position of the Pi thread
    pi_off,         \* history: the last round of off-writes of the Pi
                    \* thread, and what it sent to the error bus
    hw_handles,     \* HwCtrl handles alive (clones share the Arcs)
    exit_pc,        \* position of the caller of HwCtrl::exit
    motors          \* a Motors that is driven on its own: the raw-step
                    \* mirror pos of X, Y and Z, the positioning mode of
                    \* their drivers, the number of calls and, as history,
                    \* the last call with its result

vars == <<hw_state, hw_job, lock_poisoned, api_ret, ctrl_chan, manual_chan,
          exec_pc, exec_state, exec_job, exec_then, exec_cur, exec_dstate,
          exec_panic, exec_count, current_line, dec_pc, dec_path, dec_pos, dec_buf, dec_state,
          gcode_chan, dec_exit_chan, pi_chan, hotend_target, bed_target,
          pi_waiting, exec_reply, heaters_off, dev_no_pi, estop_chan,
          estop_pc, estop_issued, estop_in_exec, estop_in_job, estop_calls,
          errors, njobs, stopped_upto,
          failed_upto, ended_upto, fd, fd_out, hotend_temp, gd, gd_out, gd_hist,
          shared_pos_z, dstate_z_hotend_location, shared_z_hotend_location,
          z_hotend_referenced, ref_call, pi_pc, pi_off, hw_handles, exit_pc,
          motors>>

hwVars   == <<hw_state, hw_job, lock_poisoned, api_ret, njobs, stopped_upto>>
execVars == <<exec_pc, exec_state, exec_job, exec_then, exec_cur, exec_dstate,
              exec_panic, failed_upto, exec_count, current_line>>
decVars  == <<dec_pc, dec_path, dec_pos, dec_buf, dec_state, gcode_chan,
              dec_exit_chan, ended_upto>>
piVars   == <<pi_chan, hotend_target, bed_target, pi_waiting, exec_reply,
              heaters_off, dev_no_pi>>
estopVars == <<estop_chan, estop_pc, estop_issued, estop_in_exec, estop_in_job,
               estop_calls>>
(* a FileDecoder that is driven on its own, outside a print job *)
fdVars == <<fd, fd_out>>
(* the hardware around the subsystem *)
envVars == <<hotend_temp, motors>>
(* a Decoder that is driven on its own, outside a print job *)
gdVars == <<gd, gd_out, gd_hist>>
(* the Z origin of the hotend and the manual reference calls *)
posVars == <<shared_pos_z, z_hotend_referenced>>
refVars == <<dstate_z_hotend_location, shared_z_hotend_location, ref_call,
             posVars>>
(* what no step of a print job changes, but for the Z position that a      *)
(* MoveAll leaves and the messages of the Pi thread that turn the heaters  *)
(* off                                                                     *)
(* the end of the Pi thread and its off-writes *)
offVars == <<pi_pc, pi_off>>
(* the handles of HwCtrl and the teardown *)
exitVars == <<hw_handles, exit_pc>>
unitVars == <<fdVars, envVars, gdVars, refVars, offVars, exitVars>>
(* the subsystem of the print jobs *)
sysVars == <<hwVars, execVars, decVars, piVars, estopVars, ctrl_chan,
             manual_chan, errors>>

----------------------------------------------------------------------------
(* Bounds of the model *)

MaxJobs   == 2      \* try_print calls that are accepted
MaxCtrl   == 1      \* control messages pending in executor_ctrl
MaxManual == 1      \* manual messages pending in executor_manual
MaxEStops == 1      \* estop() calls
MaxFail   == 1      \* MoveAll actions that fail

MaxLines  == 3      \* lines of a file that is decoded on its own
MaxPi     == 2      \* messages pending in the channel of the Pi thread
MaxCodes  == 2      \* codes given to a Decoder that is driven on its own
MaxRefCalls == 2    \* try_reference_axis / try_reference_z_hotend calls
MaxRefJobs == 1     \* print jobs that are started around reference calls
MaxHandles == 2     \* HwCtrl handles that are alive at a time
MaxArgs == 2        \* arguments of a code whose letters are checked
MaxMotorCalls == 2  \* calls of a Motors that is driven on its own
MaxPiEStops == 1    \* PiCtrl::estop calls

(* Lengths of the axes in mm, config.motors.{x,y,z}.limit, scaled down to  *)
(* a few mm so that moves of one or two mm reach both ends.                *)
XLimit == 2
YLimit == 3
ZLimit == 1

(* sqrt is taken to 1 / SqrtScale *)
SqrtScale == 100

(* The temperature limits of the configuration: config.hotend and          *)
(* config.bed, lower_limit and upper_limit, in degrees Celsius.            *)
HotendLower == 40
HotendUpper == 280
BedLower    == 40
BedUpper    == 120

(* Channel capacity of ThreadedDecoder and chunk length of FileDecoder,    *)
(* scaled down from 32 and 512 so that a full channel and a chunk boundary *)
(* occur within files of three lines.                                      *)
BUFSIZE  == 2
FILE_BUFSIZE == 2

(* The G-code files of the model, by path.  A file is its sequence of      *)
(* lines, one code per line; "BAD" is a code the Decoder rejects with a    *)
(* GCodeError.  "missing" cannot be opened.  "move" is the file of one     *)
(* line, a move of Z, that is printed around manual reference calls.       *)
Paths == {"moves", "heat", "bad", "missing"}

FileOf(p) ==
    CASE p = "moves" -> <<"G1", "G1", "G1">>
      [] p = "move"  -> <<"G1 Z-1">>
      [] p = "heat"  -> <<"G1", "M109">>
      [] p = "bad"   -> <<"G1", "BAD">>
      [] OTHER       -> <<>>

CanOpen(p) == p # "missing"

(* The lines of the files that are decoded on their own: codes that emit   *)
(* one action (G1), two actions (M109) or none (G90), a line of two codes, *)
(* a comment, a line the parser fails on, a line that cannot be read, and  *)
(* a code the Decoder rejects.                                             *)
LineKinds == {"G1", "M109", "G90", "G1 G1", ";", "G1 $", "IOERR", "BAD"}

Files == UNION {[1..n -> LineKinds] : n \in 0..MaxLines}

(* exec_cur when no action is in flight; after_stop records, when an       *)
(* action is started, whether stop() had already been called for its job   *)
NoAction == [kind |-> "none", line |-> 0, val |-> 0, after_stop |-> FALSE]

----------------------------------------------------------------------------
(* hw::state::State *)

State_print(s) == IF s = "Stopped" THEN "Printing" ELSE "panic"

State_stop(s) == "Stopped"

State_play(s) ==
    CASE s = "Printing" -> "Printing"
      [] s = "Paused"   -> "Printing"
      [] OTHER          -> "panic"

(* State::pause with the bug of toggling: a pause of a paused job resumes  *)
(* it                                                                      *)
State_pause_toggles(s) ==
    CASE s = "Printing" -> "Paused"
      [] s = "Paused"   -> "Printing"
      [] OTHER          -> "panic"

State_pause(s) ==
    CASE s = "Printing" -> "Paused"
      [] s = "Paused"   -> "Paused"
      [] OTHER          -> "panic"

(* a check that only refuses a job that is running *)
is_not_printing(s) == s # "Printing"

is_stopped(s) == s = "Stopped"

(* HwCtrl::state_info: the status *)
state_info == hw_state

(* HwCtrl::state_info: the line of PrintingStateInfo, which is             *)
(* ExecutorCtrl::current_line                                              *)
state_info_line == current_line

----------------------------------------------------------------------------
(* Decoder state and decoding *)

(* decode::State::new / GCodeState::default: feedrate None; ActualState:   *)
(* z is the Z position, in steps, that the moves decoded so far lead to    *)
DecoderState_new == [feedrate |-> 0, z |-> 0]

(* decode::State::reset: the gcode part only, actual stays *)
DecoderState_reset(st) == [st EXCEPT !.feedrate = 0]

(* GCode::span with line offsets that restart in every chunk of try_n *)
SpanLine_in_chunk(i) == 0 + ((i - 1) % FILE_BUFSIZE) + 1

(* GCode::span: the line attached to a code read in iteration i of try_n *)
SpanLine(i) == 0 + i + 1

(* Decoder::decode on one code: the actions it emits, the new state, or an *)
(* error.  G90 only changes the coordinate mode and emits nothing.  val is *)
(* the Z distance of a MoveAll, the absolute position in steps it moves Z  *)
(* to, and the temperature of a target; the lines "G1" move in the plane   *)
(* of the endstop.                                                         *)
Decode(code, line, st) ==
    CASE code = "G90" ->
           [ok |-> TRUE, st |-> st, acts |-> <<>>]
      [] code = "G1" ->
           [ok |-> TRUE, st |-> [st EXCEPT !.feedrate = 1, !.z = 0],
            acts |-> <<[kind |-> "MoveAll", line |-> line, val |-> 0]>>]
      [] code = "G1 Z-1" ->
           [ok |-> TRUE, st |-> [st EXCEPT !.feedrate = 1, !.z = -1],
            acts |-> <<[kind |-> "MoveAll", line |-> line, val |-> -1]>>]
      [] code = "M109" ->
           [ok |-> TRUE, st |-> st,
            acts |-> <<[kind |-> "HotendTarget", line |-> line, val |-> 200],
                       [kind |-> "WaitHotendTarget", line |-> line, val |-> 0]>>]
      [] code = "M190" ->
           [ok |-> TRUE, st |-> st,
            acts |-> <<[kind |-> "WaitBedMinTemp", line |-> line, val |-> 60]>>]
      [] OTHER ->
           [ok |-> FALSE, st |-> st, acts |-> <<>>]

(* gcode::full_parse_with_callbacks on the text of one line: the codes of  *)
(* the line, and whether a callback of UnforgivingCallbacks was called.    *)
(* "G1 G1" holds two codes, ";" is a comment, "G1 $" is a code followed by *)
(* content the parser does not know; every other line is one code.         *)
ParseLine(line) ==
    CASE line = "G1 G1" -> [codes |-> <<"G1", "G1">>, err |-> FALSE]
      [] line = ";"     -> [codes |-> <<>>, err |-> FALSE]
      [] line = "G1 $"  -> [codes |-> <<"G1">>, err |-> TRUE]
      [] OTHER          -> [codes |-> <<line>>, err |-> FALSE]

(* GCode::new for the codes of one line; src is the position of the line   *)
(* in the file (what the reader had handed out), kept for the properties   *)
GCodes_new(codes, line_offset, src) ==
    [j \in 1..Len(codes) |->
        [code |-> codes[j], line_offset |-> line_offset, src |-> src]]

(* try_set_err!: the line of the ParsingError is the line of the span in   *)
(* the text that was handed to the parser, which is one line: line 0       *)
ParsingError_line == 0

(* the loop of Parser::try_n: iteration i reads the next line of the       *)
(* reader, which is line i of the file.  A line that cannot be read        *)
(* ("IOERR") and a line with a parse error end it with Err and drop the    *)
(* codes collected so far; the end of the file ends it with Ok.            *)
RECURSIVE try_n_loop(_, _, _, _)
try_n_loop(file, i, line_n_end, codes) ==
    IF i >= line_n_end \/ i > Len(file)
    THEN [ok |-> TRUE, codes |-> codes, err |-> "none", line |-> 0, src |-> 0]
    ELSE IF file[i] = "IOERR"
    THEN [ok |-> FALSE, codes |-> <<>>, err |-> "IoError", line |-> 0, src |-> i]
    ELSE IF ParseLine(file[i]).err
    THEN [ok |-> FALSE, codes |-> <<>>, err |-> "ParsingError",
          line |-> ParsingError_line, src |-> i]
    ELSE try_n_loop(file, i + 1, line_n_end,
                    codes \o GCodes_new(ParseLine(file[i]).codes, i, i))

(* Parser::try_n(n) with next_line as it stands: next_line moves on by n   *)
(* whatever happens                                                        *)
try_n(file, next_line, n) == try_n_loop(file, next_line, next_line + n, <<>>)

(* the inner loops of FileDecoder::check_buffer on the codes of one chunk: *)
(* decode them in order into buf, `?` returns at the first error with what *)
(* is already in buf.                                                      *)
RECURSIVE DecodeCodes(_, _, _)
DecodeCodes(codes, st, buf) ==
    IF codes = <<>> THEN [ok |-> TRUE, st |-> st, buf |-> buf]
    ELSE LET g == Head(codes)
             r == Decode(g.code, SpanLine(g.line_offset), st)
             acts == [j \in 1..Len(r.acts) |->
                        [kind |-> r.acts[j].kind, line |-> r.acts[j].line,
                         val |-> r.acts[j].val, src |-> g.src]]
         IN IF r.ok
            THEN DecodeCodes(Tail(codes), r.st, buf \o acts)
            ELSE [ok |-> FALSE, st |-> r.st, buf |-> buf]

(* FileDecoder::with_state_and_file, Parser::new: next_line is 1 *)
FileDecoder_with_state(file, st) ==
    [file |-> file, next_line |-> 1, prev_err |-> FALSE, buf |-> <<>>,
     st |-> st]

(* FileDecoder::check_buffer: an empty buf is refilled from the next chunk *)
(* of lines.  The for loop runs over try_n(..).into_iter(), the iterator   *)
(* of a Result: its body runs once for Ok(codes) and not at all for Err,   *)
(* so that an Err of the parser ends check_buffer with Ok(()).             *)
check_buffer(d) ==
    IF d.buf # <<>> THEN [ok |-> TRUE, panic |-> FALSE, d |-> d]
    ELSE IF d.prev_err THEN [ok |-> FALSE, panic |-> TRUE, d |-> d]
    ELSE LET r == try_n(d.file, d.next_line, FILE_BUFSIZE)
             dn == [d EXCEPT !.next_line = d.next_line + FILE_BUFSIZE,
                             !.prev_err = ~r.ok]
             c == DecodeCodes(r.codes, d.st, <<>>)
         IN IF ~r.ok THEN [ok |-> TRUE, panic |-> FALSE, d |-> dn]
            ELSE [ok |-> c.ok, panic |-> FALSE,
                  d |-> [dn EXCEPT !.buf = c.buf, !.st = c.st]]

(* FileDecoder::next on the decoder d: an error of check_buffer is         *)
(* returned before anything buffered; else buf.pop_front()                 *)
FileDecoder_next_of(d) ==
    LET c == check_buffer(d)
    IN IF c.panic
       THEN [item |-> [kind |-> "panic", line |-> 0, val |-> 0, src |-> 0],
             some |-> FALSE, d |-> c.d]
       ELSE IF ~c.ok
       THEN [item |-> [kind |-> "error", line |-> 0, val |-> 0, src |-> 0],
             some |-> TRUE, d |-> c.d]
       ELSE IF c.d.buf = <<>>
       THEN [item |-> [kind |-> "none", line |-> 0, val |-> 0, src |-> 0],
             some |-> FALSE, d |-> c.d]
       ELSE [item |-> Head(c.d.buf),
             some |-> TRUE, d |-> [c.d EXCEPT !.buf = Tail(c.d.buf)]]

----------------------------------------------------------------------------
(* inner_decoder::Decoder, G0 / G1: the arithmetic of a move.              *)
(*                                                                         *)
(* An f64 is a record: the rational s * n / d (k = "num"; n = 0 with       *)
(* s = -1 is -0.0), the infinity of sign s (k = "inf") or a NaN.  The      *)
(* operations are exact on the rationals and follow IEEE 754 on zeros,     *)
(* infinities and NaN; only sqrt is cut off, after the digits of           *)
(* SqrtScale.                                                              *)

(* Option<T> *)
None == [some |-> FALSE, t |-> 0]
Some(t) == [some |-> TRUE, t |-> t]
unwrap_or_default(o) == IF o.some THEN o.t ELSE 0

Axes == {"x", "y", "z", "e"}

(* one value per axis, each computed once *)
PerAxis(f) == [x |-> f["x"], y |-> f["y"], z |-> f["z"], e |-> f["e"]]

F64(i) ==
    [k |-> "num", s |-> IF i < 0 THEN -1 ELSE 1,
     n |-> IF i < 0 THEN -i ELSE i, d |-> 1]
INFINITY(s) == [k |-> "inf", s |-> s, n |-> 0, d |-> 1]
NAN == [k |-> "nan", s |-> 1, n |-> 0, d |-> 1]

(* a / b *)
f64_div(a, b) ==
    IF a.k = "nan" \/ b.k = "nan" THEN NAN
    ELSE IF a.k = "inf"
    THEN IF b.k = "inf" THEN NAN ELSE INFINITY(a.s * b.s)
    ELSE IF b.k = "inf" THEN [k |-> "num", s |-> a.s * b.s, n |-> 0, d |-> 1]
    ELSE IF b.n = 0
    THEN IF a.n = 0 THEN NAN ELSE INFINITY(a.s * b.s)
    ELSE [k |-> "num", s |-> a.s * b.s, n |-> a.n * b.d, d |-> a.d * b.n]

(* a * b *)
f64_mul(a, b) ==
    IF a.k = "nan" \/ b.k = "nan" THEN NAN
    ELSE IF a.k = "inf" \/ b.k = "inf"
    THEN IF (a.k = "num" /\ a.n = 0) \/ (b.k = "num" /\ b.n = 0)
         THEN NAN
         ELSE INFINITY(a.s * b.s)
    ELSE [k |-> "num", s |-> a.s * b.s, n |-> a.n * b.n, d |-> a.d * b.d]

(* a.round(): to the nearest integer, halves away from zero; a value       *)
(* between -0.5 and 0 becomes -0.0                                         *)
f64_round(a) ==
    IF a.k = "num"
    THEN [k |-> "num", s |-> a.s, n |-> (2 * a.n + a.d) \div (2 * a.d), d |-> 1]
    ELSE a

(* a > b: false when either is a NaN *)
f64_gt(a, b) ==
    /\ a.k # "nan"
    /\ b.k # "nan"
    /\ IF a.k = "inf" THEN a.s = 1 /\ ~(b.k = "inf" /\ b.s = 1)
       ELSE IF b.k = "inf" THEN b.s = -1
       ELSE a.s * a.n * b.d > b.s * b.n * a.d

(* a < 0.0: false for -0.0 and for a NaN *)
f64_is_negative(a) == a.k # "nan" /\ a.s = -1 /\ (a.k = "inf" \/ a.n # 0)

(* Where a saturating cast ends.  u32::MAX is 2^32 - 1; the integers of    *)
(* the model end at 2^31 - 1, which stands for it: every limit of the      *)
(* configurations below is far smaller than both.                          *)
U32_MAX == 2147483647

(* a as u32: saturating, NaN is 0, the fraction is cut off *)
as_u32(a) ==
    IF a.k = "nan" THEN 0
    ELSE IF a.s = -1 THEN 0
    ELSE IF a.k = "inf" THEN U32_MAX
    ELSE a.n \div a.d

(* a as i32: saturating, NaN is 0, the fraction is cut off *)
as_i32(a) ==
    IF a.k = "nan" THEN 0
    ELSE IF a.k = "inf" THEN a.s * U32_MAX
    ELSE a.s * (a.n \div a.d)

(* the largest r in lo..hi with r * r <= m *)
RECURSIVE isqrt(_, _, _)
isqrt(m, lo, hi) ==
    IF lo = hi THEN lo
    ELSE LET mid == (lo + hi + 1) \div 2
         IN IF mid * mid <= m THEN isqrt(m, mid, hi) ELSE isqrt(m, lo, mid - 1)

(* (x * x + y * y + z * z).sqrt() for whole x, y, z: the root of n, cut    *)
(* off after the digits of SqrtScale                                       *)
f64_sqrt(n) ==
    [k |-> "num", s |-> 1,
     n |-> isqrt(n * SqrtScale * SqrtScale, 0, n * SqrtScale),
     d |-> SqrtScale]

mm_to_steps(mm, translation, step_size) ==
    f64_round(f64_mul(f64_mul(f64_div(F64(mm), F64(translation)), F64(200)),
                      F64(step_size)))

(* config::Motors: per axis the translation in mm per turn, the            *)
(* microsteps per step, the length of the axis in mm and the limits of     *)
(* speed, acceleration and jerk.  MotorsTight has limits that the feedrate *)
(* F6000 exceeds, different on every axis; MotorsWide has limits that no   *)
(* move of the model reaches.                                              *)
MotorsTight ==
    [x |-> [translation |-> 100, step_size |-> 1, limit |-> XLimit,
            speed_limit |-> 4, accel_limit |-> 3, decel_limit |-> 2,
            accel_jerk_limit |-> 5, decel_jerk_limit |-> 1],
     y |-> [translation |-> 100, step_size |-> 2, limit |-> YLimit,
            speed_limit |-> 1, accel_limit |-> 6, decel_limit |-> 4,
            accel_jerk_limit |-> 2, decel_jerk_limit |-> 3],
     z |-> [translation |-> 200, step_size |-> 1, limit |-> ZLimit,
            speed_limit |-> 2, accel_limit |-> 2, decel_limit |-> 3,
            accel_jerk_limit |-> 1, decel_jerk_limit |-> 4],
     e |-> [translation |-> 100, step_size |-> 1,
            speed_limit |-> 3, accel_limit |-> 1, decel_limit |-> 5,
            accel_jerk_limit |-> 4, decel_jerk_limit |-> 2],
     e_positive_direction |-> "Right"]

MotorsWide ==
    [a \in DOMAIN MotorsTight |->
        IF a = "e_positive_direction" THEN "Left"
        ELSE [MotorsTight[a] EXCEPT !.speed_limit = 1000, !.accel_limit = 1000,
                                    !.decel_limit = 1000,
                                    !.accel_jerk_limit = 1000,
                                    !.decel_jerk_limit = 1000]]

(* the configuration files a Decoder is run with, and what they hold *)
Configs == {"tight", "wide"}
config(name) == IF name = "tight" THEN MotorsTight ELSE MotorsWide

reverse(direction) == IF direction = "Left" THEN "Right" ELSE "Left"

(* State::reset: the gcode part becomes GCodeState::default().  State::stop *)
(* of the Executor calls it on the state it                                *)
(* takes back from the decoder of the job                                  *)
State_reset(state) ==
    [state EXCEPT !.gcode =
        [feedrate |-> None, x |-> 0, y |-> 0, z |-> 0, e |-> 0,
         xyz_coord_mode |-> "Absolute", e_coord_mode |-> "Relative"]]

(* GCodeState::default and ActualState::new, as State::new joins them *)
State_new(z_hotend_location) ==
    [gcode |-> [feedrate |-> None, x |-> 0, y |-> 0, z |-> 0, e |-> 0,
                xyz_coord_mode |-> "Absolute", e_coord_mode |-> "Relative"],
     actual |-> [x |-> 0, y |-> 0, z |-> 0,
                 steps_x |-> 0, steps_y |-> 0, steps_z |-> 0,
                 z_hotend_location |-> z_hotend_location]]

(* the lower and the upper limits, as g0_1 checks them *)
position_in_bounds_upper_only(actual, cfg, actual_x_new, actual_y_new, actual_z_new) ==
    /\ actual_x_new <= cfg.x.limit
    /\ actual_y_new <= cfg.y.limit
    /\ actual_z_new <= 0

position_in_bounds(actual, cfg, actual_x_new, actual_y_new, actual_z_new) ==
    /\ actual_x_new >= 0
    /\ actual_y_new >= 0
    /\ actual_z_new >= actual.z_hotend_location
    /\ actual_x_new <= cfg.x.limit
    /\ actual_y_new <= cfg.y.limit
    /\ actual_z_new <= 0

(* limit!: if the value of axis is above its limit, the other three are    *)
(* scaled by limit / value and the axis is set to the limit                *)
limit_others_only(cfg, limit_name, axis, v) ==
    IF f64_gt(v[axis], F64(cfg[axis][limit_name]))
    THEN PerAxis([a \in Axes |->
            IF a = axis THEN v[a]
            ELSE f64_round(f64_mul(f64_div(v[a], v[axis]),
                                   F64(cfg[axis][limit_name])))])
    ELSE v

limit(cfg, limit_name, axis, v) ==
    IF f64_gt(v[axis], F64(cfg[axis][limit_name]))
    THEN PerAxis([a \in Axes |->
            IF a = axis THEN F64(cfg[axis][limit_name])
            ELSE f64_round(f64_mul(f64_div(v[a], v[axis]),
                                   F64(cfg[axis][limit_name])))])
    ELSE v

(* calc_by_choosing!: x gets its limit, the others follow in the ratio of  *)
(* the last values, then y, z and e are limited in turn                    *)
calc_by_choosing(cfg, limit_name, last) ==
    LET x == F64(cfg.x[limit_name])
        t == f64_div(last.x, x)
        v0 == PerAxis([a \in Axes |->
                 IF a = "x" THEN x ELSE f64_round(f64_div(last[a], t))])
    IN limit(cfg, limit_name, "e",
             limit(cfg, limit_name, "z",
                   limit(cfg, limit_name, "y", v0)))

(* no action was returned *)
NoMovement == None

(* A G-code of the decoder: its mnemonic and the arguments X, Y, Z, E, F   *)
(* (None: the letter is absent).                                           *)
GCode(mnemonic, x, y, z, e, f) ==
    [mnemonic |-> mnemonic, x |-> x, y |-> y, z |-> z, e |-> e, f |-> f]

NoArguments(code) ==
    ~code.x.some /\ ~code.y.some /\ ~code.z.some /\ ~code.e.some /\ ~code.f.some

(* the displacement in mm that g0_1 derives from the arguments of code *)
relative_xyz(state, code, axis) ==
    IF state.gcode.xyz_coord_mode = "Absolute"
    THEN unwrap_or_default(code[axis]) - state.gcode[axis]
    ELSE unwrap_or_default(code[axis])

(* Decoder::g0_1: the state after the call, what it returned and the step  *)
(* deltas it computed                                                      *)
g0_1(state, cfg, code) ==
    LET absolute == state.gcode.xyz_coord_mode = "Absolute"
        e_absolute == state.gcode.e_coord_mode = "Absolute"
        x_mm == relative_xyz(state, code, "x")
        y_mm == relative_xyz(state, code, "y")
        z_mm == relative_xyz(state, code, "z")
        e_mm == IF e_absolute
                THEN unwrap_or_default(code.e) - state.gcode.e
                ELSE unwrap_or_default(code.e)
        gcode1 ==
            [state.gcode EXCEPT
                !.x = IF absolute THEN unwrap_or_default(code.x)
                      ELSE @ + unwrap_or_default(code.x)
                             + unwrap_or_default(code.y)
                             + unwrap_or_default(code.z),
                !.y = IF absolute THEN unwrap_or_default(code.y) ELSE @,
                !.z = IF absolute THEN unwrap_or_default(code.z) ELSE @,
                !.e = IF e_absolute THEN unwrap_or_default(code.e)
                      ELSE @ + unwrap_or_default(code.e)]
        actual_x_new == state.actual.x + x_mm
        actual_y_new == state.actual.y + y_mm
        actual_z_new == state.actual.z + z_mm
        actual1 == [state.actual EXCEPT !.x = actual_x_new,
                                        !.y = actual_y_new,
                                        !.z = actual_z_new]
        gcode2 == [gcode1 EXCEPT !.feedrate = IF code.f.some THEN code.f ELSE @]
        f == F64(gcode2.feedrate.t)
        s == f64_sqrt(x_mm * x_mm + y_mm * y_mm + z_mm * z_mm)
        t == f64_div(s, f64_div(f, F64(60)))
        steps == [x |-> mm_to_steps(x_mm, cfg.x.translation, cfg.x.step_size),
                  y |-> mm_to_steps(y_mm, cfg.y.translation, cfg.y.step_size),
                  z |-> mm_to_steps(z_mm, cfg.z.translation, cfg.z.step_size),
                  e |-> mm_to_steps(e_mm, cfg.e.translation, cfg.e.step_size)]
        v0 == PerAxis([a \in Axes |-> f64_round(f64_div(steps[a], t))])
        v == limit(cfg, "speed_limit", "e",
                   limit(cfg, "speed_limit", "z",
                         limit(cfg, "speed_limit", "y",
                               limit(cfg, "speed_limit", "x", v0))))
        a0 == calc_by_choosing(cfg, "accel_limit", v)
        j0 == calc_by_choosing(cfg, "accel_jerk_limit", a0)
        a1 == calc_by_choosing(cfg, "decel_limit", v)
        j1 == calc_by_choosing(cfg, "decel_jerk_limit", a1)
        actual2 == [actual1 EXCEPT !.steps_x = @ + as_u32(steps.x),
                                   !.steps_y = @ + as_u32(steps.y),
                                   !.steps_z = @ + as_i32(steps.z)]
        e_direction == IF f64_is_negative(steps.e)
                       THEN reverse(cfg.e_positive_direction)
                       ELSE cfg.e_positive_direction
        movement ==
            PerAxis([a \in Axes |->
                [distance |-> CASE a = "x" -> actual2.steps_x
                                [] a = "y" -> actual2.steps_y
                                [] a = "z" -> actual2.steps_z
                                [] a = "e" -> as_u32(steps.e),
                 min_frequency |-> 1,
                 max_frequency |-> as_u32(v[a]),
                 acceleration |-> as_u32(a0[a]),
                 deceleration |-> as_u32(a1[a]),
                 acceleration_jerk |-> as_u32(j0[a]),
                 deceleration_jerk |-> as_u32(j1[a]),
                 direction |-> IF a = "e" THEN e_direction ELSE "none"]])
        no_steps == PerAxis([a \in Axes |-> 0])
    IN IF NoArguments(code)
       THEN [state |-> state, kind |-> "MissingArguments",
             movement |-> NoMovement, steps |-> no_steps]
       ELSE IF ~position_in_bounds(state.actual, cfg, actual_x_new,
                                   actual_y_new, actual_z_new)
       THEN [state |-> [state EXCEPT !.gcode = gcode1],
             kind |-> "PosOutOfBounds",
             movement |-> NoMovement, steps |-> no_steps]
       ELSE IF ~gcode2.feedrate.some
       THEN [state |-> [gcode |-> gcode2, actual |-> actual1],
             kind |-> "MissingArguments",
             movement |-> NoMovement, steps |-> no_steps]
       ELSE [state |-> [gcode |-> gcode2, actual |-> actual2],
             kind |-> "MoveAll",
             movement |-> movement,
             steps |-> PerAxis([a \in Axes |-> as_i32(steps[a])])]

(* Decoder::decode for the codes of the moves and of the coordinate modes; *)
(* G90, G91, M82 and M83 take no argument and yield no action              *)
Decoder_decode(state, cfg, code) ==
    LET mode(field, value) ==
            IF NoArguments(code)
            THEN [state |-> [state EXCEPT !.gcode[field] = value],
                  kind |-> "none", movement |-> NoMovement,
                  steps |-> PerAxis([a \in Axes |-> 0])]
            ELSE [state |-> state, kind |-> "UnknownArgument",
                  movement |-> NoMovement, steps |-> PerAxis([a \in Axes |-> 0])]
    IN CASE code.mnemonic \in {"G0", "G1"} -> g0_1(state, cfg, code)
         [] code.mnemonic = "G90" -> mode("xyz_coord_mode", "Absolute")
         [] code.mnemonic = "G91" -> mode("xyz_coord_mode", "Relative")
         [] code.mnemonic = "M82" -> mode("e_coord_mode", "Absolute")
         [] code.mnemonic = "M83" -> mode("e_coord_mode", "Relative")

(* The codes a Decoder on its own is given: moves to and beyond both ends  *)
(* of every axis, with and without each letter; without E and F, pulling   *)
(* back at a feedrate above the limits of MotorsTight and extruding at one *)
(* below them; the feedrate 0; and the changes of mode.                    *)
ExtrusionAndFeedrate ==
    {<<None, None>>, <<Some(-2), Some(6000)>>, <<Some(2), Some(60)>>}

MoveCodes ==
    {GCode("G1", x, y, z, ef[1], ef[2]) :
        x \in {None, Some(-1), Some(XLimit)},
        y \in {None, Some(2)},
        z \in {None, Some(-1), Some(1)},
        ef \in ExtrusionAndFeedrate}
    \cup {GCode("G1", None, None, None, None, Some(0))}

ModeCodes ==
    {GCode(m, None, None, None, None, None) : m \in {"G90", "G91", "M82", "M83"}}

NoCode == GCode("none", None, None, None, None, None)

----------------------------------------------------------------------------
(* the subsystem after HwCtrl::start *)
SysInit ==
    /\ hw_state = "Stopped"
    /\ hw_job = 0
    /\ lock_poisoned = FALSE
    /\ api_ret = "none"
    /\ ctrl_chan = <<>>
    /\ manual_chan = <<>>
    /\ exec_pc = "loop"
    /\ exec_state = "Stopped"
    /\ exec_job = 0
    /\ exec_then = "none"
    /\ exec_cur = NoAction
    /\ exec_dstate = DecoderState_new
    /\ exec_panic = ""
    /\ exec_count = 0
    /\ current_line = 0
    /\ dec_pc = "none"
    /\ dec_path = "none"
    /\ dec_pos = 0
    /\ dec_buf = <<>>
    /\ dec_state = DecoderState_new
    /\ gcode_chan = <<>>
    /\ dec_exit_chan = <<>>
    /\ pi_chan = <<>>
    /\ hotend_target = 0
    /\ bed_target = 0
    /\ pi_waiting = {}
    /\ exec_reply = "none"
    /\ heaters_off = FALSE
    /\ dev_no_pi \in BOOLEAN
    /\ estop_chan = <<>>
    /\ estop_pc = "run"
    /\ estop_issued = <<>>
    /\ estop_in_exec = FALSE
    /\ estop_in_job = FALSE
    /\ estop_calls = 0
    /\ errors = <<>>
    /\ njobs = 0
    /\ stopped_upto = 0
    /\ failed_upto = 0
    /\ ended_upto = 0

(* no decoder is driven on its own *)
FdIdle ==
    /\ fd = FileDecoder_with_state(<<>>, DecoderState_new)
    /\ fd_out = <<>>

(* the hotend is cold; Motors::new and Motors::init: the mirror is        *)
(* SharedRawPos::default, the drivers position absolutely                  *)
EnvIdle ==
    /\ hotend_temp = 0
    /\ motors = [pos |-> [x |-> 0, y |-> 0, z |-> 0],
                 mode |-> [x |-> "Absolute", y |-> "Absolute", z |-> "Absolute"],
                 n |-> 0, last |-> [op |-> "none"]]

(* no Decoder is driven on its own *)
GdIdle ==
    /\ gd = [state |-> State_new(-config("tight").z.limit), cfg |-> "tight"]
    /\ gd_out = [kind |-> "start", code |-> NoCode, movement |-> NoMovement]
    /\ gd_hist = [n |-> 0, steps_x |-> 0, steps_y |-> 0, steps_z |-> 0,
                  e |-> 0]

(* AxisMotor::steps_to_mm, the inverse of mm_to_steps; the configurations  *)
(* of the model have whole steps per mm on Z                               *)
steps_to_mm(steps, translation, step_size) ==
    (steps * translation) \div (200 * step_size)

Z_steps_to_mm(steps) ==
    steps_to_mm(steps, config("tight").z.translation, config("tight").z.step_size)

(* ReferenceRunOptParameters *)
Parameters(speed, accel_decel, jerk) ==
    [speed |-> speed, accel_decel |-> accel_decel, jerk |-> jerk]

Parameters_default == Parameters(None, None, None)

(* the Z position and the Z origin after start: SharedRawPos::default, the *)
(* DecoderState of executor_loop and the value Executor::new gives to the  *)
(* readers of z_hotend_location; no reference call was made.  The Pi      *)
(* thread runs and has written nothing; one HwCtrl handle, as              *)
(* HwCtrl::init returns it, and exit is not called.                        *)
RefIdle ==
    /\ shared_pos_z = 0
    /\ dstate_z_hotend_location = -config("tight").z.limit
    /\ shared_z_hotend_location = -config("tight").z.limit
    /\ z_hotend_referenced = FALSE
    /\ ref_call = [n |-> 0, op |-> "none", axis |-> "none",
                   parameters |-> Parameters_default, ret |-> "none"]
    /\ pi_pc = "run"
    /\ pi_off = [n |-> 0, by |-> "none", attempted |-> <<>>, failed |-> {},
                 sent |-> <<>>, aggregate |-> <<>>]
    /\ hw_handles = 1
    /\ exit_pc = "none"

UnitIdle == FdIdle /\ EnvIdle /\ GdIdle /\ RefIdle

Init == SysInit /\ UnitIdle

----------------------------------------------------------------------------
(* HwCtrl: the calls of the API threads *)

Ret(op, res) == api_ret' = res

(* the receiving end of executor_ctrl / executor_manual is gone *)
ExecDead == exec_pc \in {"panicked", "exited"}

CtrlMsg(t, job, path) == [t |-> t, job |-> job, path |-> path]

(* ExecutorCtrl::send_executor_ctrl *)
send_executor_ctrl(msg) == ctrl_chan' = Append(ctrl_chan, msg)

(* a caller panics while it holds the write lock *)
PanicInLock(op) ==
    /\ lock_poisoned' = TRUE
    /\ Ret(op, "panic")
    /\ UNCHANGED <<hw_state, hw_job, njobs, stopped_upto, ctrl_chan>>

(* try_print with the bug of sending Print before the file is opened *)
HwTryPrint_sends_first(p) ==
    /\ ~lock_poisoned
    /\ IF ~is_stopped(hw_state)
       THEN /\ Ret("try_print", "NotStopped")
            /\ UNCHANGED <<hw_state, hw_job, lock_poisoned, njobs,
                           stopped_upto, ctrl_chan>>
       ELSE /\ njobs < MaxJobs
            /\ Len(ctrl_chan) < MaxCtrl
            /\ IF ExecDead \/ State_print(hw_state) = "panic"
               THEN PanicInLock("try_print")
               ELSE /\ send_executor_ctrl(CtrlMsg("Print", njobs + 1, p))
                    /\ njobs' = njobs + 1
                    /\ IF ~CanOpen(p)
                       THEN /\ Ret("try_print", "IoError")
                            /\ UNCHANGED <<hw_state, hw_job>>
                       ELSE /\ hw_state' = State_print(hw_state)
                            /\ hw_job' = njobs + 1
                            /\ Ret("try_print", "Ok")
                    /\ UNCHANGED <<lock_poisoned, stopped_upto>>
    /\ UNCHANGED <<manual_chan, execVars, decVars, piVars, estopVars, errors>>
    /\ UNCHANGED unitVars

(* HwCtrl::try_print, with ExecutorCtrl::print *)
HwTryPrint(p) ==
    /\ ~lock_poisoned
    /\ IF ~is_stopped(hw_state)
       THEN /\ Ret("try_print", "NotStopped")
            /\ UNCHANGED <<hw_state, hw_job, lock_poisoned, njobs,
                           stopped_upto, ctrl_chan>>
       ELSE IF ~CanOpen(p)
       THEN /\ Ret("try_print", "IoError")
            /\ UNCHANGED <<hw_state, hw_job, lock_poisoned, njobs,
                           stopped_upto, ctrl_chan>>
       ELSE /\ njobs < MaxJobs
            /\ Len(ctrl_chan) < MaxCtrl
            /\ IF ExecDead \/ State_print(hw_state) = "panic"
               THEN PanicInLock("try_print")
               ELSE /\ send_executor_ctrl(CtrlMsg("Print", njobs + 1, p))
                    /\ hw_state' = State_print(hw_state)
                    /\ hw_job' = njobs + 1
                    /\ njobs' = njobs + 1
                    /\ Ret("try_print", "Ok")
                    /\ UNCHANGED <<lock_poisoned, stopped_upto>>
    /\ UNCHANGED <<manual_chan, execVars, decVars, piVars, estopVars, errors>>
    /\ UNCHANGED unitVars

(* stop with the bug of not telling the Executor *)
HwStop_keeps_executor ==
    /\ ~lock_poisoned
    /\ hw_state' = State_stop(hw_state)
    /\ hw_job' = 0
    /\ stopped_upto' = njobs
    /\ Ret("stop", "Ok")
    /\ UNCHANGED <<lock_poisoned, njobs, ctrl_chan>>
    /\ UNCHANGED <<manual_chan, execVars, decVars, piVars, estopVars, errors>>
    /\ UNCHANGED unitVars

(* HwCtrl::stop *)
HwStop ==
    /\ ~lock_poisoned
    /\ Len(ctrl_chan) < MaxCtrl
    /\ IF ExecDead
       THEN PanicInLock("stop")
       ELSE /\ send_executor_ctrl(CtrlMsg("Stop", 0, ""))
            /\ hw_state' = State_stop(hw_state)
            /\ hw_job' = 0
            /\ stopped_upto' = njobs
            /\ Ret("stop", "Ok")
            /\ UNCHANGED <<lock_poisoned, njobs>>
    /\ UNCHANGED <<manual_chan, execVars, decVars, piVars, estopVars, errors>>
    /\ UNCHANGED unitVars

(* HwCtrl::try_play *)
HwTryPlay ==
    /\ ~lock_poisoned
    /\ IF is_stopped(hw_state)
       THEN /\ Ret("try_play", "Stopped")
            /\ UNCHANGED <<hw_state, hw_job, lock_poisoned, njobs,
                           stopped_upto, ctrl_chan>>
       ELSE /\ Len(ctrl_chan) < MaxCtrl
            /\ IF ExecDead \/ State_play(hw_state) = "panic"
               THEN PanicInLock("try_play")
               ELSE /\ send_executor_ctrl(CtrlMsg("Play", 0, ""))
                    /\ hw_state' = State_play(hw_state)
                    /\ Ret("try_play", "Ok")
                    /\ UNCHANGED <<hw_job, lock_poisoned, njobs, stopped_upto>>
    /\ UNCHANGED <<manual_chan, execVars, decVars, piVars, estopVars, errors>>
    /\ UNCHANGED unitVars

(* HwCtrl::try_pause *)
HwTryPause ==
    /\ ~lock_poisoned
    /\ IF is_stopped(hw_state)
       THEN /\ Ret("try_pause", "Stopped")
            /\ UNCHANGED <<hw_state, hw_job, lock_poisoned, njobs,
                           stopped_upto, ctrl_chan>>
       ELSE /\ Len(ctrl_chan) < MaxCtrl
            /\ IF ExecDead \/ State_pause(hw_state) = "panic"
               THEN PanicInLock("try_pause")
               ELSE /\ send_executor_ctrl(CtrlMsg("Pause", 0, ""))
                    /\ hw_state' = State_pause(hw_state)
                    /\ Ret("try_pause", "Ok")
                    /\ UNCHANGED <<hw_job, lock_poisoned, njobs, stopped_upto>>
    /\ UNCHANGED <<manual_chan, execVars, decVars, piVars, estopVars, errors>>
    /\ UNCHANGED unitVars

(* ExecutorManualComms *)
ManualMsg(t, axis, parameters) ==
    [t |-> t, axis |-> axis, parameters |-> parameters]

(* the record of a reference call *)
RefCall(op, axis, parameters, ret) ==
    ref_call' = [n |-> ref_call.n + 1, op |-> op, axis |-> axis,
                 parameters |-> parameters, ret |-> ret]

(* the checks of ExecutorCtrl::reference_axis, as written: the second      *)
(* check of the jerk compares it with decel_limit                          *)
reference_axis_in_bounds(cfg, parameters) ==
    /\ parameters.speed.some => parameters.speed.t <= cfg.speed_limit
    /\ parameters.accel_decel.some =>
          /\ parameters.accel_decel.t <= cfg.accel_limit
          /\ parameters.accel_decel.t <= cfg.decel_limit
    /\ parameters.jerk.some =>
          /\ parameters.jerk.t <= cfg.accel_jerk_limit
          /\ parameters.jerk.t <= cfg.decel_limit

(* try_reference_axis with the bug of posting the error of a refused call *)
(* to the error bus as well                                                *)
HwTryReferenceAxis_posts_error(axis, parameters) ==
    /\ ~lock_poisoned
    /\ ref_call.n < MaxRefCalls
    /\ IF ~is_stopped(hw_state)
       THEN /\ Ret("try_reference_axis", "NotStopped")
            /\ RefCall("try_reference_axis", axis, parameters, "NotStopped")
            /\ errors' = Append(errors, "NotStopped")
            /\ UNCHANGED <<manual_chan, lock_poisoned>>
       ELSE IF ~reference_axis_in_bounds(config("tight")[axis], parameters)
       THEN /\ Ret("try_reference_axis", "OutOfBounds")
            /\ RefCall("try_reference_axis", axis, parameters, "OutOfBounds")
            /\ errors' = Append(errors, "OutOfBounds")
            /\ UNCHANGED <<manual_chan, lock_poisoned>>
       ELSE /\ Len(manual_chan) < MaxManual
            /\ IF ExecDead
               THEN /\ Ret("try_reference_axis", "panic")
                    /\ RefCall("try_reference_axis", axis, parameters, "panic")
                    /\ UNCHANGED <<manual_chan, lock_poisoned, errors>>
               ELSE /\ manual_chan' = Append(manual_chan,
                                  ManualMsg("ReferenceAxis", axis, parameters))
                    /\ Ret("try_reference_axis", "Ok")
                    /\ RefCall("try_reference_axis", axis, parameters, "Ok")
                    /\ UNCHANGED lock_poisoned
                    /\ UNCHANGED errors
    /\ UNCHANGED <<hw_state, hw_job, njobs, stopped_upto, ctrl_chan,
                   execVars, decVars, piVars, estopVars>>
    /\ UNCHANGED <<fdVars, envVars, gdVars, posVars, offVars, exitVars,
                   dstate_z_hotend_location, shared_z_hotend_location>>

(* HwCtrl::try_reference_axis, with ExecutorCtrl::reference_axis; it holds *)
(* the read lock, which a panic does not poison.                           *)
HwTryReferenceAxis(axis, parameters) ==
    /\ ~lock_poisoned
    /\ ref_call.n < MaxRefCalls
    /\ IF ~is_stopped(hw_state)
       THEN /\ Ret("try_reference_axis", "NotStopped")
            /\ RefCall("try_reference_axis", axis, parameters, "NotStopped")
            /\ UNCHANGED <<manual_chan, lock_poisoned>>
       ELSE IF ~reference_axis_in_bounds(config("tight")[axis], parameters)
       THEN /\ Ret("try_reference_axis", "OutOfBounds")
            /\ RefCall("try_reference_axis", axis, parameters, "OutOfBounds")
            /\ UNCHANGED <<manual_chan, lock_poisoned>>
       ELSE /\ Len(manual_chan) < MaxManual
            /\ IF ExecDead
               THEN /\ Ret("try_reference_axis", "panic")
                    /\ RefCall("try_reference_axis", axis, parameters, "panic")
                    /\ UNCHANGED <<manual_chan, lock_poisoned>>
               ELSE /\ manual_chan' = Append(manual_chan,
                                  ManualMsg("ReferenceAxis", axis, parameters))
                    /\ Ret("try_reference_axis", "Ok")
                    /\ RefCall("try_reference_axis", axis, parameters, "Ok")
                    /\ UNCHANGED lock_poisoned
    /\ UNCHANGED <<hw_state, hw_job, njobs, stopped_upto, ctrl_chan,
                   execVars, decVars, piVars, estopVars, errors>>
    /\ UNCHANGED <<fdVars, envVars, gdVars, posVars, offVars, exitVars,
                   dstate_z_hotend_location, shared_z_hotend_location>>

(* HwCtrl::try_reference_z_hotend, with ExecutorCtrl::reference_z_hotend;  *)
(* it holds the read lock, which a panic does not poison.                  *)
HwTryReferenceZHotend ==
    /\ ~lock_poisoned
    /\ ref_call.n < MaxRefCalls
    /\ IF ~is_stopped(hw_state)
       THEN /\ Ret("try_reference_z_hotend", "NotStopped")
            /\ RefCall("try_reference_z_hotend", "z", Parameters_default,
                       "NotStopped")
            /\ UNCHANGED <<manual_chan, lock_poisoned>>
       ELSE /\ Len(manual_chan) < MaxManual
            /\ IF ExecDead
               THEN /\ Ret("try_reference_z_hotend", "panic")
                    /\ RefCall("try_reference_z_hotend", "z",
                               Parameters_default, "panic")
                    /\ UNCHANGED <<manual_chan, lock_poisoned>>
               ELSE /\ manual_chan' = Append(manual_chan,
                          ManualMsg("ReferenceZAxisHotend", "z",
                                    Parameters_default))
                    /\ Ret("try_reference_z_hotend", "Ok")
                    /\ RefCall("try_reference_z_hotend", "z",
                               Parameters_default, "Ok")
                    /\ UNCHANGED lock_poisoned
    /\ UNCHANGED <<hw_state, hw_job, njobs, stopped_upto, ctrl_chan,
                   execVars, decVars, piVars, estopVars, errors>>
    /\ UNCHANGED <<fdVars, envVars, gdVars, posVars, offVars, exitVars,
                   dstate_z_hotend_location, shared_z_hotend_location>>

(* ExecutorCtrl::pos_z, which HwCtrl::pos_info returns as z *)
pos_info_z == Z_steps_to_mm(shared_pos_z) - shared_z_hotend_location

(* HwCtrl::estop: sends to the EStop worker without taking the state lock; *)
(* the send fails, and the caller panics, once the worker is gone.         *)
HwEStop ==
    /\ estop_calls < MaxEStops
    /\ IF estop_pc = "run"
       THEN /\ estop_chan' = Append(estop_chan, [t |-> "EStop", job |-> hw_job])
            /\ estop_calls' = estop_calls + 1
            /\ Ret("estop", "Ok")
       ELSE /\ Ret("estop", "panic")
            /\ UNCHANGED <<estop_chan, estop_calls>>
    /\ UNCHANGED <<hw_state, hw_job, lock_poisoned, njobs, stopped_upto,
                   ctrl_chan, manual_chan, execVars, decVars, piVars,
                   estop_pc, estop_issued, estop_in_exec, estop_in_job,
                   errors>>
    /\ UNCHANGED unitVars

----------------------------------------------------------------------------
(* The Executor thread: executor_loop *)

(* the Executor leaves executor_loop by a panic: unwinding drops State and *)
(* with it the ThreadedDecoder, whose Drop sends Exit and joins            *)
ExecLeave(how, msg) ==
    /\ exec_panic' = msg
    /\ IF exec_job # 0
       THEN /\ dec_exit_chan' = Append(dec_exit_chan, "Exit")
            /\ exec_pc' = "join"
            /\ exec_then' = how
       ELSE /\ exec_pc' = how
            /\ UNCHANGED <<dec_exit_chan, exec_then>>

(* execute::State::stop, first half: ThreadedDecoder::state sends the      *)
(* State request and joins the decoder thread                              *)
ExecState_stop ==
    IF exec_state = "Stopped"
    THEN /\ exec_pc' = "loop"
         /\ UNCHANGED <<dec_exit_chan, exec_then>>
    ELSE /\ dec_exit_chan' = Append(dec_exit_chan, "State")
         /\ exec_pc' = "join"
         /\ exec_then' = "stopped"

(* execute::State::print: takes the DecoderState and spawns the decoder    *)
ExecState_print(msg) ==
    IF exec_state = "Stopped"
    THEN /\ exec_state' = "Printing"
         /\ exec_job' = msg.job
         /\ exec_pc' = "loop"
         /\ dec_pc' = "run"
         /\ dec_path' = msg.path
         /\ dec_pos' = 0
         /\ dec_buf' = <<>>
         /\ dec_state' = exec_dstate
         /\ gcode_chan' = <<>>
         /\ dec_exit_chan' = <<>>
         /\ exec_count' = 0
         /\ UNCHANGED <<exec_then, exec_panic>>
    ELSE /\ ExecLeave("panicked", "printer is already printing/paused")
         /\ UNCHANGED <<exec_state, exec_job, dec_pc, dec_path, dec_pos,
                        dec_buf, dec_state, gcode_chan, exec_count>>

(* execute::State::play *)
ExecState_play ==
    IF exec_state = "Stopped"
    THEN /\ ExecLeave("panicked", "can't continue, printer is stopped")
         /\ UNCHANGED exec_state
    ELSE /\ exec_state' = "Printing"
         /\ exec_pc' = "loop"
         /\ UNCHANGED <<dec_exit_chan, exec_then, exec_panic>>

(* execute::State::pause *)
ExecState_pause ==
    IF exec_state = "Stopped"
    THEN /\ ExecLeave("panicked", "can't continue, printer is stopped")
         /\ UNCHANGED exec_state
    ELSE /\ exec_state' = "Paused"
         /\ exec_pc' = "loop"
         /\ UNCHANGED <<dec_exit_chan, exec_then, exec_panic>>

(* handle_ctrl_msg!, reached from try_recv at the top of the loop and from *)
(* the select of the idle branch; both continue with the next iteration    *)
ExecCtrlRecv ==
    /\ exec_pc \in {"loop", "select"}
    /\ ctrl_chan # <<>>
    /\ ctrl_chan' = Tail(ctrl_chan)
    /\ LET msg == Head(ctrl_chan)
       IN CASE msg.t = "Print" ->
                 ExecState_print(msg)
            [] msg.t = "Stop" ->
                 /\ ExecState_stop
                 /\ UNCHANGED <<exec_state, exec_job, exec_panic, dec_pc,
                                dec_path, dec_pos, dec_buf, dec_state,
                                gcode_chan, exec_count>>
            [] msg.t = "Play" ->
                 /\ ExecState_play
                 /\ UNCHANGED <<exec_job, dec_pc, dec_path, dec_pos, dec_buf,
                                dec_state, gcode_chan, exec_count>>
            [] msg.t = "Pause" ->
                 /\ ExecState_pause
                 /\ UNCHANGED <<exec_job, dec_pc, dec_path, dec_pos, dec_buf,
                                dec_state, gcode_chan, exec_count>>
            [] OTHER ->
                 /\ ExecLeave("exited", "")
                 /\ UNCHANGED <<exec_state, exec_job, dec_pc, dec_path,
                                dec_pos, dec_buf, dec_state, gcode_chan,
                                exec_count>>
    /\ UNCHANGED <<hwVars, manual_chan, exec_cur, exec_dstate, failed_upto,
                   ended_upto, piVars, estopVars, errors>>
    /\ UNCHANGED <<unitVars, current_line>>

(* try_recv found the control channel empty: with a decoder the Executor   *)
(* goes on to decoder.next(), without one to the select                    *)
ExecPoll ==
    /\ exec_pc = "loop"
    /\ ctrl_chan = <<>>
    /\ exec_pc' = IF exec_job # 0 THEN "next" ELSE "select"
    /\ UNCHANGED <<hwVars, ctrl_chan, manual_chan, exec_state, exec_job,
                   exec_then, exec_cur, exec_dstate, exec_panic, failed_upto,
                   decVars, piVars, estopVars, errors>>
    /\ UNCHANGED <<unitVars, current_line, exec_count>>

(* ThreadedDecoder::next taking the newest item of the channel *)
ThreadedDecoder_next_newest ==
    [item |-> gcode_chan[Len(gcode_chan)],
     rest |-> SubSeq(gcode_chan, 1, Len(gcode_chan) - 1)]

(* ThreadedDecoder::next on a channel that holds an item: recv takes the   *)
(* oldest one                                                              *)
ThreadedDecoder_next ==
    [item |-> Head(gcode_chan), rest |-> Tail(gcode_chan)]

(* printing branch: ThreadedDecoder::next is a blocking recv on the action *)
(* channel.  Ok: store the line and start the action.  Err: post it and    *)
(* stop.  None (sender dropped, which is after the decoder thread has      *)
(* returned): stop.                                                        *)
ExecNext ==
    /\ exec_pc = "next"
    /\ gcode_chan # <<>> \/ dec_pc = "done"
    /\ IF gcode_chan # <<>>
       THEN LET res == ThreadedDecoder_next.item
            IN /\ gcode_chan' = ThreadedDecoder_next.rest
               /\ IF res.kind # "error"
                  THEN /\ exec_cur' = [kind |-> res.kind, line |-> res.line,
                                       val |-> res.val,
                                       after_stop |-> exec_job <= stopped_upto]
                       /\ current_line' = res.line
                       /\ exec_count' = exec_count + 1
                       /\ exec_pc' = "exec"
                       /\ UNCHANGED <<errors, dec_exit_chan, exec_then>>
                  ELSE /\ errors' = Append(errors, "GCodeError")
                       /\ ExecState_stop
                       /\ UNCHANGED <<exec_cur, current_line, exec_count>>
       ELSE /\ ExecState_stop
            /\ UNCHANGED <<gcode_chan, exec_cur, errors, current_line,
                           exec_count>>
    /\ UNCHANGED <<hwVars, ctrl_chan, manual_chan, exec_state, exec_job,
                   exec_dstate, exec_panic, failed_upto, dec_pc, dec_path,
                   dec_pos, dec_buf, dec_state, ended_upto, piVars, estopVars>>
    /\ UNCHANGED unitVars

IsMotorsError(e) == e = "MotorsError"

(* what Motors::move_all can return: Ok, or a MotorsError while the model  *)
(* has failures left                                                       *)
MoveOutcomes ==
    IF Len(SelectSeq(errors, IsMotorsError)) < MaxFail THEN BOOLEAN ELSE {TRUE}

(* Executor::exec returns from the action; send_err! posts its error       *)
ExecAction ==
    /\ exec_pc = "exec"
    /\ CASE exec_cur.kind = "MoveAll" ->
              \E ok \in MoveOutcomes :
                 /\ errors' = IF ok THEN errors ELSE Append(errors, "MotorsError")
                 /\ failed_upto' = IF ok THEN failed_upto ELSE exec_job
                 /\ shared_pos_z' = IF ok THEN exec_cur.val ELSE shared_pos_z
                 /\ z_hotend_referenced' =
                        (z_hotend_referenced /\ shared_pos_z' = shared_pos_z)
                 /\ exec_pc' = "loop"
                 /\ exec_cur' = NoAction
                 /\ UNCHANGED pi_chan
         [] exec_cur.kind = "HotendTarget" ->
              /\ pi_chan' = Append(pi_chan, [t |-> "SetHotendTarget", val |-> exec_cur.val])
              /\ exec_pc' = "loop"
              /\ exec_cur' = NoAction
              /\ UNCHANGED <<errors, failed_upto, posVars>>
         [] exec_cur.kind = "WaitHotendTarget" ->
              /\ pi_chan' = Append(pi_chan, [t |-> "WaitHotendTarget", val |-> 0])
              /\ exec_pc' = "wait"
              /\ UNCHANGED <<errors, failed_upto, exec_cur, posVars>>
         [] exec_cur.kind = "WaitBedMinTemp" ->
              /\ pi_chan' = Append(pi_chan, [t |-> "WaitMinBedTemp", val |-> exec_cur.val])
              /\ exec_pc' = "wait"
              /\ UNCHANGED <<errors, failed_upto, exec_cur, posVars>>
         [] OTHER ->
              /\ exec_pc' = "loop"
              /\ exec_cur' = NoAction
              /\ UNCHANGED <<errors, failed_upto, pi_chan, posVars>>
    /\ UNCHANGED <<hwVars, ctrl_chan, manual_chan, exec_state, exec_job,
                   exec_then, exec_dstate, exec_panic, decVars, hotend_target,
                   bed_target, pi_waiting, exec_reply, heaters_off, dev_no_pi,
                   estopVars>>
    /\ UNCHANGED <<fdVars, envVars, gdVars, dstate_z_hotend_location,
                   shared_z_hotend_location, ref_call, offVars, exitVars,
                   current_line, exec_count>>

(* exec_wait_hotend_target / exec_wait_bed_min_temp: the reply of the Pi   *)
(* thread arrives; unwrap() panics on Err(TargetChanged)                   *)
ExecWaitReply ==
    /\ exec_pc = "wait"
    /\ exec_reply # "none"
    /\ exec_reply' = "none"
    /\ exec_cur' = NoAction
    /\ IF exec_reply = "Ok"
       THEN /\ exec_pc' = "loop"
            /\ UNCHANGED <<dec_exit_chan, exec_then, exec_panic>>
       ELSE ExecLeave("panicked", "TargetChanged")
    /\ UNCHANGED <<hwVars, ctrl_chan, manual_chan, exec_state, exec_job,
                   exec_dstate, failed_upto, dec_pc, dec_path, dec_pos,
                   dec_buf, dec_state, gcode_chan, ended_upto, pi_chan, hotend_target,
                   bed_target, pi_waiting, heaters_off, dev_no_pi, estopVars,
                   errors>>
    /\ UNCHANGED <<unitVars, current_line, exec_count>>

(* the join of the decoder thread returns: State::stop resets the state it *)
(* got back and becomes Stopped; a leaving Executor is gone.  The          *)
(* PrintingData was taken out of the State, so the ThreadedDecoder, its    *)
(* channel and the FileDecoder of the job are dropped here.                *)
ExecJoined ==
    /\ exec_pc = "join"
    /\ dec_pc = "done"
    /\ dec_pc' = "none"
    /\ dec_path' = "none"
    /\ dec_pos' = 0
    /\ dec_buf' = <<>>
    /\ dec_state' = DecoderState_new
    /\ gcode_chan' = <<>>
    /\ exec_count' = 0
    /\ exec_then' = "none"
    /\ IF exec_then = "stopped"
       THEN /\ exec_dstate' = DecoderState_reset(dec_state)
            /\ exec_state' = "Stopped"
            /\ exec_job' = 0
            /\ exec_pc' = "loop"
       ELSE /\ exec_pc' = exec_then
            /\ UNCHANGED <<exec_dstate, exec_state, exec_job>>
    /\ UNCHANGED <<hwVars, ctrl_chan, manual_chan, exec_cur, exec_panic,
                   failed_upto, dec_exit_chan, ended_upto, piVars, estopVars,
                   errors>>
    /\ UNCHANGED <<unitVars, current_line>>

(* idle branch of the select: a manual message.  ReferenceAxis runs the    *)
(* axis to its endstop, which zeroes its raw position, or posts the error  *)
(* of the run; ReferenceZAxisHotend writes the raw Z position in mm to the *)
(* DecoderState that is kept while Stopped.                                *)
ExecManual ==
    /\ exec_pc = "select"
    /\ manual_chan # <<>>
    /\ manual_chan' = Tail(manual_chan)
    /\ exec_pc' = "loop"
    /\ LET msg == Head(manual_chan)
       IN IF msg.t = "ReferenceAxis"
          THEN \E ok \in MoveOutcomes :
                 /\ errors' = IF ok THEN errors ELSE Append(errors, "MotorsError")
                 /\ shared_pos_z' = IF ok /\ msg.axis = "z" THEN 0
                                    ELSE shared_pos_z
                 /\ z_hotend_referenced' =
                        (z_hotend_referenced /\ shared_pos_z' = shared_pos_z)
                 /\ UNCHANGED dstate_z_hotend_location
          ELSE /\ dstate_z_hotend_location' = Z_steps_to_mm(shared_pos_z)
               /\ z_hotend_referenced' = TRUE
               /\ UNCHANGED <<errors, shared_pos_z>>
    /\ UNCHANGED <<hwVars, ctrl_chan, exec_state, exec_job, exec_then,
                   exec_cur, exec_dstate, exec_panic, failed_upto, decVars,
                   piVars, estopVars>>
    /\ UNCHANGED <<fdVars, envVars, gdVars, shared_z_hotend_location, ref_call,
                   offVars, exitVars, current_line, exec_count>>

----------------------------------------------------------------------------
(* The decoder thread: decoder_loop over a FileDecoder *)

(* FileDecoder::next: check_buffer refills an empty buf from the next      *)
(* chunk of lines (Parser::try_n advances next_line by the chunk length),  *)
(* an error is returned before anything buffered; else buf.pop_front()     *)
FileDecoder_next ==
    LET n == FileDecoder_next_of([file |-> FileOf(dec_path),
                                  next_line |-> dec_pos + 1,
                                  prev_err |-> FALSE,
                                  buf |-> dec_buf, st |-> dec_state])
    IN [item |-> n.item, some |-> n.some, st |-> n.d.st, buf |-> n.d.buf,
        pos |-> n.d.next_line - 1]

(* sel.ready() reports the action channel ready to send: take the next     *)
(* item and send it, or leave the loop at the end of the file              *)
DecStep ==
    /\ dec_pc = "run"
    /\ Len(gcode_chan) < BUFSIZE
    /\ LET n == FileDecoder_next
       IN /\ dec_state' = n.st
          /\ dec_buf' = n.buf
          /\ dec_pos' = n.pos
          /\ IF n.some
             THEN /\ gcode_chan' = Append(gcode_chan, n.item)
                  /\ UNCHANGED dec_pc
             ELSE /\ dec_pc' = "eof"
                  /\ UNCHANGED gcode_chan
          /\ ended_upto' = IF n.some /\ n.item.kind # "error"
                           THEN ended_upto ELSE exec_job
    /\ UNCHANGED <<hwVars, ctrl_chan, manual_chan, execVars, dec_path,
                   dec_exit_chan, piVars, estopVars, errors>>
    /\ UNCHANGED unitVars

(* a decoder thread that looks for the exit message only inside its loop: *)
(* after the end of the file it is gone without the recv                   *)
DecExit_only_in_loop ==
    /\ dec_pc = "run"
    /\ dec_exit_chan # <<>>
    /\ dec_exit_chan' = Tail(dec_exit_chan)
    /\ dec_pc' = "done"
    /\ UNCHANGED <<hwVars, ctrl_chan, manual_chan, execVars, dec_path,
                   dec_pos, dec_buf, dec_state, gcode_chan, ended_upto,
                   piVars, estopVars, errors>>
    /\ UNCHANGED unitVars

(* the exit message: sel.ready() reports it inside the loop, or the recv   *)
(* after the loop gets it; State hands the decoder state back              *)
DecExit ==
    /\ dec_pc \in {"run", "eof"}
    /\ dec_exit_chan # <<>>
    /\ dec_exit_chan' = Tail(dec_exit_chan)
    /\ dec_pc' = "done"
    /\ UNCHANGED <<hwVars, ctrl_chan, manual_chan, execVars, dec_path,
                   dec_pos, dec_buf, dec_state, gcode_chan, ended_upto,
                   piVars, estopVars, errors>>
    /\ UNCHANGED unitVars

----------------------------------------------------------------------------
(* The Pi thread: pi_loop *)

(* notify_waiting_target_changed on the waiters in ws *)
NotifyTargetChanged(ws) ==
    /\ pi_waiting' = pi_waiting \ ws
    /\ exec_reply' = IF pi_waiting \cap ws # {} THEN "TargetChanged" ELSE exec_reply

(* the outputs PiThreadData::estop writes false to, in its order *)
Outputs == <<"hotend_heat", "hotend_fan", "bed_heat">>

OutputSet == {Outputs[i] : i \in DOMAIN Outputs}

(* the off-writes with the bug of returning at the first write that fails  *)
PiThreadData_estop_returns_early(fails) ==
    LET bad == {i \in DOMAIN Outputs : Outputs[i] \in fails}
        upto == IF bad = {} THEN Len(Outputs)
                ELSE CHOOSE i \in bad : \A j \in bad : i <= j
    IN [attempted |-> SubSeq(Outputs, 1, upto),
        errors |-> IF bad = {} THEN <<>> ELSE <<Outputs[upto]>>]

(* PiThreadData::estop: the three off-writes, each attempted, and the Vec  *)
(* of the errors of those in fails, the writes that fail                   *)
PiThreadData_estop(fails) ==
    [attempted |-> Outputs,
     errors |-> SelectSeq(Outputs, LAMBDA o : o \in fails)]

(* a receive that takes the message that was sent last *)
try_recv_newest_first(chan) ==
    [msg |-> chan[Len(chan)], rest |-> SubSeq(chan, 1, Len(chan) - 1)]

(* pi_recv.try_recv() on a channel that is not empty: the message that was *)
(* sent first, and what stays in the channel                               *)
try_recv(chan) == [msg |-> Head(chan), rest |-> Tail(chan)]

(* one message of the command channel; Exit ends the loop *)
PiRecv ==
    /\ pi_pc = "run"
    /\ pi_chan # <<>>
    /\ pi_chan' = try_recv(pi_chan).rest
    /\ LET msg == try_recv(pi_chan).msg
       IN CASE msg.t = "SetHotendTarget" ->
                 /\ hotend_target' = msg.val
                 /\ NotifyTargetChanged({"hotend"})
                 /\ UNCHANGED <<bed_target, heaters_off, errors, offVars>>
            [] msg.t = "SetBedTarget" ->
                 /\ bed_target' = msg.val
                 /\ NotifyTargetChanged({"bed", "bed_min"})
                 /\ UNCHANGED <<hotend_target, heaters_off, errors, offVars>>
            [] msg.t = "WaitHotendTarget" ->
                 /\ pi_waiting' = pi_waiting \cup {"hotend"}
                 /\ UNCHANGED <<hotend_target, bed_target, exec_reply,
                                heaters_off, errors, offVars>>
            [] msg.t = "WaitBedTarget" ->
                 /\ pi_waiting' = pi_waiting \cup {"bed"}
                 /\ UNCHANGED <<hotend_target, bed_target, exec_reply,
                                heaters_off, errors, offVars>>
            [] msg.t = "WaitMinBedTemp" ->
                 /\ pi_waiting' = pi_waiting \cup {"bed_min"}
                 /\ UNCHANGED <<hotend_target, bed_target, exec_reply,
                                heaters_off, errors, offVars>>
            [] msg.t = "Stop" ->
                 /\ hotend_target' = 0
                 /\ bed_target' = 0
                 /\ NotifyTargetChanged({"hotend", "bed", "bed_min"})
                 /\ UNCHANGED <<heaters_off, errors, offVars>>
            [] msg.t = "EStop" ->
                 \E fails \in SUBSET OutputSet :
                    LET res == PiThreadData_estop(fails)
                    IN  /\ heaters_off' = (res.errors = <<>>)
                        /\ errors' = errors \o res.errors
                        /\ pi_off' = [n |-> pi_off.n + 1, by |-> "EStop",
                                      attempted |-> res.attempted,
                                      failed |-> fails,
                                      sent |-> res.errors,
                                      aggregate |-> <<>>]
                        /\ UNCHANGED <<hotend_target, bed_target, pi_waiting,
                                       exec_reply, pi_pc>>
            [] OTHER ->
                 \E fails \in SUBSET OutputSet :
                    LET res == PiThreadData_estop(fails)
                        sent == IF res.errors = <<>> THEN <<>>
                                ELSE <<"ExitError">>
                    IN  /\ heaters_off' = (res.errors = <<>>)
                        /\ hotend_target' = 0
                        /\ bed_target' = 0
                        /\ NotifyTargetChanged({"hotend", "bed", "bed_min"})
                        /\ errors' = errors \o sent
                        /\ pi_off' = [n |-> pi_off.n + 1, by |-> "Exit",
                                      attempted |-> res.attempted,
                                      failed |-> fails,
                                      sent |-> sent,
                                      aggregate |-> res.errors]
                        /\ pi_pc' = "exited"
    /\ UNCHANGED <<hwVars, ctrl_chan, manual_chan, execVars, decVars,
                   dev_no_pi, estopVars>>
    /\ UNCHANGED <<fdVars, envVars, gdVars, refVars, exitVars>>

(* the channel is empty: sleep, then update_hotend_heat and                *)
(* update_bed_heat, which release every waiter with Ok in a dev_no_pi      *)
(* build and do nothing otherwise                                          *)
PiTick ==
    /\ pi_pc = "run"
    /\ pi_chan = <<>>
    /\ pi_waiting # {}
    /\ IF dev_no_pi
       THEN /\ pi_waiting' = {}
            /\ exec_reply' = "Ok"
       ELSE UNCHANGED <<pi_waiting, exec_reply>>
    /\ UNCHANGED <<hwVars, ctrl_chan, manual_chan, execVars, decVars,
                   pi_chan, hotend_target, bed_target, heaters_off, dev_no_pi,
                   estopVars, errors>>
    /\ UNCHANGED unitVars

(* the hotend reaches the temperature of its target *)
HotendHeats ==
    /\ hotend_target # 0
    /\ hotend_temp # hotend_target
    /\ hotend_temp' = hotend_target
    /\ UNCHANGED motors
    /\ UNCHANGED <<sysVars, fdVars, gdVars, refVars, offVars, exitVars>>

----------------------------------------------------------------------------
(* PiCtrl: the calls that set the targets and park a waiter *)

(* the targets a caller may pass for a heater with the limits lo and hi:   *)
(* None, the ends of the range, its neighbours and the ends of u16         *)
TargetInputs(lo, hi) ==
    {None} \cup {Some(t) : t \in {0, lo - 1, lo, hi, hi + 1, 65535}}

(* the range check that only tests the upper limit *)
target_in_range_upper_only(lo, hi, target) ==
    ~target.some \/ target.t <= hi

(* the condition of ensure_own! in try_set_hotend_target and               *)
(* ensure_bed_target_in_range: None passes, Some(temp) must lie in the     *)
(* range of the heater                                                     *)
target_in_range(lo, hi, target) ==
    ~target.some \/ (lo <= target.t /\ target.t <= hi)

(* the u16 the Pi thread stores for a target: AtomicTargetTemp::opt_to_u16 *)
opt_to_u16(target) == IF target.some THEN target.t ELSE 0

(* PiCtrl::try_set_hotend_target *)
PiTrySetHotendTarget(target) ==
    /\ Len(pi_chan) < MaxPi
    /\ IF target_in_range(HotendLower, HotendUpper, target)
       THEN /\ pi_chan' = Append(pi_chan, [t |-> "SetHotendTarget",
                                           val |-> opt_to_u16(target)])
            /\ Ret("try_set_hotend_target", "Ok")
       ELSE /\ Ret("try_set_hotend_target", "TargetOutOfBounds")
            /\ UNCHANGED pi_chan
    /\ UNCHANGED <<hw_state, hw_job, lock_poisoned, njobs, stopped_upto,
                   ctrl_chan, manual_chan, execVars, decVars, hotend_target,
                   bed_target, pi_waiting, exec_reply, heaters_off, dev_no_pi,
                   estopVars, errors, unitVars>>

(* PiCtrl::try_set_bed_target *)
PiTrySetBedTarget(target) ==
    /\ Len(pi_chan) < MaxPi
    /\ IF target_in_range(BedLower, BedUpper, target)
       THEN /\ pi_chan' = Append(pi_chan, [t |-> "SetBedTarget",
                                           val |-> opt_to_u16(target)])
            /\ Ret("try_set_bed_target", "Ok")
       ELSE /\ Ret("try_set_bed_target", "TargetOutOfBounds")
            /\ UNCHANGED pi_chan
    /\ UNCHANGED <<hw_state, hw_job, lock_poisoned, njobs, stopped_upto,
                   ctrl_chan, manual_chan, execVars, decVars, hotend_target,
                   bed_target, pi_waiting, exec_reply, heaters_off, dev_no_pi,
                   estopVars, errors, unitVars>>

(* PiCtrl::try_wait_hotend_target, up to its recv: the caller sends the    *)
(* sender of a fresh reply channel and blocks on the receiver              *)
PiTryWaitHotendTarget ==
    /\ Len(pi_chan) < MaxPi
    /\ "hotend" \notin pi_waiting
    /\ \A i \in DOMAIN pi_chan : pi_chan[i].t # "WaitHotendTarget"
    /\ pi_chan' = Append(pi_chan, [t |-> "WaitHotendTarget", val |-> 0])
    /\ exec_reply' = "none"
    /\ UNCHANGED <<hwVars, ctrl_chan, manual_chan, execVars, decVars,
                   hotend_target, bed_target, pi_waiting, heaters_off,
                   dev_no_pi, estopVars, errors, unitVars>>

(* PiCtrl::estop *)
PiCtrl_estop ==
    /\ pi_pc = "run"
    /\ Len(pi_chan) < MaxPi
    /\ pi_off.n + Len(SelectSeq(pi_chan, LAMBDA m : m.t = "EStop")) < MaxPiEStops
    /\ pi_chan' = Append(pi_chan, [t |-> "EStop", val |-> 0])
    /\ UNCHANGED <<hwVars, ctrl_chan, manual_chan, execVars, decVars,
                   hotend_target, bed_target, pi_waiting, exec_reply,
                   heaters_off, dev_no_pi, estopVars, errors, unitVars>>

(* HwCtrl is Clone: a second handle on the same Arcs *)
HwClone ==
    /\ exit_pc = "none"
    /\ 0 < hw_handles
    /\ hw_handles < MaxHandles
    /\ hw_handles' = hw_handles + 1
    /\ UNCHANGED <<sysVars, fdVars, envVars, gdVars, refVars, offVars, exit_pc>>

(* what the steps of HwCtrl::exit leave alone *)
ExitFrame ==
    UNCHANGED <<hwVars, manual_chan, execVars, decVars, hotend_target,
                bed_target, pi_waiting, exec_reply, heaters_off, dev_no_pi,
                estop_pc, estop_issued, estop_in_exec, estop_in_job,
                estop_calls, errors, fdVars, envVars, gdVars, refVars,
                offVars>>

(* HwCtrl::exit, drop(self.executor_ctrl): the handle is consumed.  With   *)
(* another handle alive the Arc only loses a reference.  The last one runs *)
(* Drop for ExecutorCtrl, which sends Exit, or panics if the Executor is   *)
(* gone, and then joins.                                                   *)
HwExitDropExecutor ==
    /\ exit_pc = "none"
    /\ 0 < hw_handles
    /\ hw_handles' = hw_handles - 1
    /\ IF hw_handles > 1
       THEN /\ exit_pc' = "drop_pi"
            /\ UNCHANGED ctrl_chan
       ELSE IF ExecDead
       THEN /\ exit_pc' = "panicked"
            /\ UNCHANGED ctrl_chan
       ELSE /\ Len(ctrl_chan) < MaxCtrl
            /\ send_executor_ctrl(CtrlMsg("Exit", 0, ""))
            /\ exit_pc' = "join_executor"
    /\ UNCHANGED <<pi_chan, estop_chan>>
    /\ ExitFrame

(* Drop for ExecutorCtrl, join().unwrap(): returns once the Executor       *)
(* thread has ended and panics if that thread panicked                     *)
HwExitJoinExecutor ==
    /\ exit_pc = "join_executor"
    /\ ExecDead
    /\ exit_pc' = IF exec_pc = "exited" THEN "drop_pi" ELSE "panicked"
    /\ UNCHANGED <<ctrl_chan, pi_chan, estop_chan, hw_handles>>
    /\ ExitFrame

(* HwCtrl::exit, drop(self.pi_ctrl): with another handle alive nothing     *)
(* happens; the last one, the Executor and its clone being gone, runs Drop *)
(* for PiCtrl, which sends Exit and joins                                  *)
HwExitDropPi ==
    /\ exit_pc = "drop_pi"
    /\ IF hw_handles > 0
       THEN /\ exit_pc' = "send_estop"
            /\ UNCHANGED pi_chan
       ELSE /\ Len(pi_chan) < MaxPi
            /\ pi_chan' = Append(pi_chan, [t |-> "Exit", val |-> 0])
            /\ exit_pc' = "join_pi"
    /\ UNCHANGED <<ctrl_chan, estop_chan, hw_handles>>
    /\ ExitFrame

(* Drop for PiCtrl, join *)
HwExitJoinPi ==
    /\ exit_pc = "join_pi"
    /\ pi_pc = "exited"
    /\ exit_pc' = "send_estop"
    /\ UNCHANGED <<ctrl_chan, pi_chan, estop_chan, hw_handles>>
    /\ ExitFrame

(* HwCtrl::exit, estop_send.send(ControlComms::Exit).unwrap() *)
HwExitSendEStop ==
    /\ exit_pc = "send_estop"
    /\ IF estop_pc = "run"
       THEN /\ estop_chan' = Append(estop_chan, [t |-> "Exit", job |-> 0])
            /\ exit_pc' = "done"
       ELSE /\ exit_pc' = "panicked"
            /\ UNCHANGED estop_chan
    /\ UNCHANGED <<ctrl_chan, pi_chan, hw_handles>>
    /\ ExitFrame

HwExit ==
    \/ HwExitDropExecutor
    \/ HwExitJoinExecutor
    \/ HwExitDropPi
    \/ HwExitJoinPi
    \/ HwExitSendEStop

----------------------------------------------------------------------------
(* The EStop worker *)

(* overtravel window, in ms, the worker passes to the driver's estop *)
EStopOvertravel == 2000

(* the worker with the bug of handling its messages only between two      *)
(* steps of the Executor, as if the Executor thread did the work           *)
EStopWorker_behind_executor ==
    /\ exec_pc \in {"loop", "select"}
    /\ estop_pc = "run"
    /\ estop_chan # <<>>
    /\ estop_chan' = Tail(estop_chan)
    /\ IF Head(estop_chan).t = "EStop"
       THEN /\ estop_issued' = Append(estop_issued, EStopOvertravel)
            /\ estop_in_exec' = (estop_in_exec \/ exec_pc \in {"exec", "wait"})
            /\ estop_in_job' = (estop_in_job \/ Head(estop_chan).job # 0)
            /\ \E io_ok \in BOOLEAN :
                  estop_pc' = IF io_ok THEN "run" ELSE "panicked"
       ELSE /\ estop_pc' = "exited"
            /\ UNCHANGED <<estop_issued, estop_in_exec, estop_in_job>>
    /\ UNCHANGED <<hwVars, ctrl_chan, manual_chan, execVars, decVars, piVars,
                   estop_calls, errors>>
    /\ UNCHANGED unitVars

(* one message: EStop issues estop(2000) on the driver and panics if the   *)
(* write fails; Exit ends the thread                                       *)
EStopWorker ==
    /\ estop_pc = "run"
    /\ estop_chan # <<>>
    /\ estop_chan' = Tail(estop_chan)
    /\ IF Head(estop_chan).t = "EStop"
       THEN /\ estop_issued' = Append(estop_issued, EStopOvertravel)
            /\ estop_in_exec' = (estop_in_exec \/ exec_pc \in {"exec", "wait"})
            /\ estop_in_job' = (estop_in_job \/ Head(estop_chan).job # 0)
            /\ \E io_ok \in BOOLEAN :
                  estop_pc' = IF io_ok THEN "run" ELSE "panicked"
       ELSE /\ estop_pc' = "exited"
            /\ UNCHANGED <<estop_issued, estop_in_exec, estop_in_job>>
    /\ UNCHANGED <<hwVars, ctrl_chan, manual_chan, execVars, decVars, piVars,
                   estop_calls, errors>>
    /\ UNCHANGED unitVars

----------------------------------------------------------------------------
ExecutorStep ==
    \/ ExecCtrlRecv
    \/ ExecPoll
    \/ ExecNext
    \/ ExecAction
    \/ ExecWaitReply
    \/ ExecJoined
    \/ ExecManual

PiStep == PiRecv \/ PiTick

(* the steps of the Executor, decoder and Pi threads during print jobs *)
ThreadsNext ==
    \/ ExecCtrlRecv
    \/ ExecPoll
    \/ ExecNext
    \/ ExecAction
    \/ ExecWaitReply
    \/ ExecJoined
    \/ DecStep
    \/ DecExit
    \/ PiRecv
    \/ PiTick

(* Print jobs: the job calls of the API and the threads *)
Next ==
    \/ \E p \in Paths : HwTryPrint(p)
    \/ HwStop
    \/ HwTryPlay
    \/ HwTryPause
    \/ ThreadsNext

(* A FileDecoder on its own, iterated as decoder_loop iterates it: next()  *)
(* is called until it returns None.                                        *)
FdNext ==
    /\ ~(fd_out # <<>> /\ fd_out[Len(fd_out)].kind \in {"none", "panic"})
    /\ fd' = FileDecoder_next_of(fd).d
    /\ fd_out' = Append(fd_out, FileDecoder_next_of(fd).item)
    /\ UNCHANGED <<sysVars, envVars, gdVars, refVars, offVars, exitVars>>

FdInit ==
    /\ SysInit
    /\ EnvIdle
    /\ GdIdle
    /\ RefIdle
    /\ fd \in {FileDecoder_with_state(f, DecoderState_new) : f \in Files}
    /\ fd_out = <<>>

FdSpec == FdInit /\ [][FdNext]_vars

(* A Decoder on its own, as FileDecoder::check_buffer drives it: decode    *)
(* is called with one code after the other.                                *)
GdDecode(code) ==
    /\ gd_hist.n < MaxCodes
    /\ \E r \in {Decoder_decode(gd.state, config(gd.cfg), code)} :
          /\ gd' = [gd EXCEPT !.state = r.state]
          /\ gd_out' = [kind |-> r.kind, code |-> code, movement |-> r.movement]
          /\ gd_hist' = [n |-> gd_hist.n + 1,
                         steps_x |-> gd_hist.steps_x + r.steps.x,
                         steps_y |-> gd_hist.steps_y + r.steps.y,
                         steps_z |-> gd_hist.steps_z + r.steps.z,
                         e |-> r.steps.e]
    /\ UNCHANGED <<sysVars, fdVars, envVars, refVars, offVars, exitVars>>

GdNext == \E code \in MoveCodes \cup ModeCodes : GdDecode(code)

(* executor_loop makes the State with z_hotend_location = -(z.limit) *)
GdInit ==
    /\ SysInit
    /\ FdIdle
    /\ EnvIdle
    /\ RefIdle
    /\ gd \in {[state |-> State_new(-config(cfg).z.limit), cfg |-> cfg] : cfg \in Configs}
    /\ gd_out = [kind |-> "start", code |-> NoCode, movement |-> NoMovement]
    /\ gd_hist = [n |-> 0, steps_x |-> 0, steps_y |-> 0, steps_z |-> 0,
                  e |-> 0]

GdSpec == GdInit /\ [][GdNext]_vars

(* the loop over code.arguments() of g0_1, g4, g92 and                     *)
(* extract_temp_from_code: the first argument with a letter outside        *)
(* supported ends it with UnknownArgument, the first with a letter that    *)
(* was seen before with DuplicateArgument                                  *)
arguments_loop(arguments, supported) ==
    LET bad == {i \in DOMAIN arguments :
                   \/ arguments[i] \notin supported
                   \/ \E j \in 1..(i - 1) : arguments[j] = arguments[i]}
        first == CHOOSE i \in bad : \A j \in bad : i <= j
    IN  IF bad = {} THEN "ok"
        ELSE IF arguments[first] \notin supported THEN "UnknownArgument"
        ELSE "DuplicateArgument"

(* the result of a code that was refused, and of one that was decoded to   *)
(* actions                                                                 *)
Rejected(kind) == [kind |-> kind, actions |-> <<>>]

Decoded(actions) == [kind |-> "ok", actions |-> actions]

(* codes that need at least one argument, then the loop *)
with_arguments(arguments, supported, actions) ==
    IF arguments = <<>> THEN Rejected("MissingArguments")
    ELSE IF arguments_loop(arguments, supported) # "ok"
    THEN Rejected(arguments_loop(arguments, supported))
    ELSE Decoded(actions)

(* g28: the loop over the arguments is `*letter = true`, with no look at   *)
(* what the flag was; no argument stands for X and Y                       *)
g28(arguments) ==
    LET has(l) == arguments = <<>> \/ \E i \in DOMAIN arguments : arguments[i] = l
    IN  IF \E i \in DOMAIN arguments : arguments[i] \notin {"X", "Y"}
        THEN Rejected("UnknownArgument")
        ELSE Decoded((IF has("X") THEN <<"ReferenceAxis X">> ELSE <<>>)
                     \o (IF has("Y") THEN <<"ReferenceAxis Y">> ELSE <<>>))

(* Decoder::decode by the mnemonic of the code.  g0_1 is taken up to the   *)
(* feedrate, for a Decoder that has seen no F yet: a move without F is     *)
(* refused with MissingArguments.  For g20, g21, g90, g91, m82 and m83 any *)
(* argument is an unknown one.  M84, M106, M107 and T0 are answered with   *)
(* Ok(None) without a look at the arguments.                               *)
Decoder_decode_arguments(code) ==
    CASE code.mnemonic \in {"G0", "G1"} ->
           LET r == with_arguments(code.arguments, {"X", "Y", "Z", "E", "F"},
                                   <<"MoveAll">>)
           IN  IF r.kind = "ok"
                  /\ \A i \in DOMAIN code.arguments : code.arguments[i] # "F"
               THEN Rejected("MissingArguments")
               ELSE r
      [] code.mnemonic = "G4" ->
           with_arguments(code.arguments, {"P", "S"}, <<"Wait">>)
      [] code.mnemonic \in {"G20", "G21", "G90", "G91", "M82", "M83"} ->
           IF code.arguments = <<>> THEN Decoded(<<>>)
           ELSE Rejected("UnknownArgument")
      [] code.mnemonic = "G28" -> g28(code.arguments)
      [] code.mnemonic = "G92" ->
           with_arguments(code.arguments, {"X", "Y", "Z", "E"}, <<>>)
      [] code.mnemonic = "M104" ->
           with_arguments(code.arguments, {"S"}, <<"HotendTarget">>)
      [] code.mnemonic = "M109" ->
           with_arguments(code.arguments, {"S"},
                          <<"HotendTarget", "WaitHotendTarget">>)
      [] code.mnemonic = "M140" ->
           with_arguments(code.arguments, {"S"}, <<"BedTarget">>)
      [] code.mnemonic = "M190" ->
           with_arguments(code.arguments, {"S"}, <<"WaitBedMinTemp">>)
      [] OTHER -> Decoded(<<>>)

(* decode is called on a new Decoder with a code, whatever its arguments *)
GdDecodeArguments(code) ==
    /\ gd_hist.n = 0
    /\ \E r \in {Decoder_decode_arguments(code)} :
          gd_out' = [kind |-> r.kind, code |-> code, movement |-> r.actions]
    /\ gd_hist' = [gd_hist EXCEPT !.n = gd_hist.n + 1]
    /\ UNCHANGED <<gd, sysVars, fdVars, envVars, refVars, offVars, exitVars>>

(* decode is called with every code Decoder::decode knows, with up to     *)
(* MaxArgs arguments whose letters are those of an axis, of the feedrate,  *)
(* of a temperature or a time, and one that no code knows                  *)
GdArgSpec ==
    /\ Init
    /\ [][\E mnemonic \in {"G0", "G1", "G4", "G20", "G21", "G28", "G90", "G91",
                           "G92", "M82", "M83", "M84", "M104", "M106", "M107",
                           "M109", "M140", "M190", "T0"} :
             \E n \in 0..MaxArgs :
                \E arguments \in [1..n -> {"X", "Y", "F", "S", "Q"}] :
                   GdDecodeArguments([mnemonic |-> mnemonic,
                                      arguments |-> arguments])
       ]_vars

(* the job is stopped between two codes: the state of the Decoder is      *)
(* reset and decodes the codes of the next job                             *)
GdReset ==
    /\ gd_out.kind # "reset"
    /\ gd' = [gd EXCEPT !.state = State_reset(gd.state)]
    /\ gd_out' = [kind |-> "reset", code |-> NoCode, movement |-> NoMovement]
    /\ UNCHANGED <<gd_hist, sysVars, fdVars, envVars, refVars, offVars,
                   exitVars>>

GdResetSpec ==
    /\ GdInit
    /\ [][
            \/ GdNext
            \/ GdReset
       ]_vars

(* Manual referencing around a print job of the file "move": reference    *)
(* calls with the default parameters in every job state, the job calls,    *)
(* and the Executor, with its idle branch, and the decoder thread; the     *)
(* file has no code for the Pi thread.                                     *)
RefSpec ==
    /\ Init
    /\ [][
            \/ (njobs < MaxRefJobs /\ HwTryPrint("move"))
            \/ HwStop
            \/ HwTryPause
            \/ HwTryReferenceAxis("z", Parameters_default)
            \/ HwTryReferenceZHotend
            \/ ExecCtrlRecv
            \/ ExecPoll
            \/ ExecNext
            \/ ExecAction
            \/ ExecJoined
            \/ DecStep
            \/ DecExit
            \/ ExecManual
       ]_vars

(* Reference runs while no job is printed, with the optional parameters a   *)
(* caller may pass for an axis: absent, at a limit of the axis and one     *)
(* above it                                                                *)
RefAxisSpec ==
    /\ Init
    /\ [][
            \/ \E axis \in {"x", "y", "z"} :
                  \E cfg \in {config("tight")[axis]} :
                     \E speed \in {None, Some(cfg.speed_limit),
                                   Some(cfg.speed_limit + 1)},
                        accel_decel \in {None, Some(cfg.accel_limit),
                                         Some(cfg.decel_limit),
                                         Some(cfg.accel_limit + 1),
                                         Some(cfg.decel_limit + 1)},
                        jerk \in {None, Some(cfg.accel_jerk_limit),
                                  Some(cfg.decel_jerk_limit),
                                  Some(cfg.accel_jerk_limit + 1),
                                  Some(cfg.decel_jerk_limit + 1)} :
                        HwTryReferenceAxis(axis,
                            Parameters(speed, accel_decel, jerk))
            \/ ExecPoll
            \/ ExecManual
       ]_vars

(* Calls that are refused, around a print job of the file "move":         *)
(* try_play, try_pause and reference calls in every job state, reference   *)
(* runs with a speed within and above the limit of the axis, and targets   *)
(* outside the range of the hotend; the Executor and the decoder thread,   *)
(* whose failing moves post to the error bus.                              *)
RejectSpec ==
    /\ Init
    /\ [][
            \/ (njobs < MaxRefJobs /\ HwTryPrint("move"))
            \/ HwStop
            \/ HwTryPlay
            \/ HwTryPause
            \/ \E speed \in {None, Some(config("tight").z.speed_limit + 1)} :
                  HwTryReferenceAxis("z", Parameters(speed, None, None))
            \/ \E t \in {Some(HotendLower - 1), Some(HotendUpper + 1)} :
                  PiTrySetHotendTarget(t)
            \/ ExecCtrlRecv
            \/ ExecPoll
            \/ ExecNext
            \/ ExecAction
            \/ ExecJoined
            \/ DecStep
            \/ DecExit
            \/ ExecManual
       ]_vars

(* Teardown around a print job of the file "move": the job calls through  *)
(* a handle that is alive, a second handle, HwCtrl::exit, and the threads  *)
(* it ends.                                                                *)
ExitSpec ==
    /\ Init
    /\ [][
            \/ (njobs < MaxRefJobs /\ hw_handles > 0 /\ HwTryPrint("move"))
            \/ (hw_handles > 0 /\ HwTryPause)
            \/ HwClone
            \/ HwExit
            \/ ExecCtrlRecv
            \/ ExecPoll
            \/ ExecNext
            \/ ExecAction
            \/ DecStep
            \/ PiRecv
            \/ EStopWorker
       ]_vars

(* The Pi thread with callers that set a hotend target, wait for it, call  *)
(* PiCtrl::estop and tear the subsystem down; the idle Executor and the    *)
(* EStop worker end as HwCtrl::exit tells them.                            *)
PiOffSpec ==
    /\ Init
    /\ [][
            \/ \E t \in {Some(HotendLower), Some(HotendUpper)} : PiTrySetHotendTarget(t)
            \/ PiTryWaitHotendTarget
            \/ PiCtrl_estop
            \/ HwExit
            \/ ExecCtrlRecv
            \/ ExecPoll
            \/ PiRecv
            \/ PiTick
            \/ EStopWorker
       ]_vars

(* Motors::move_all for the Movement whose distances are m.  early: a      *)
(* driver call before the run returns its error through `?`.  status: what *)
(* each motor reports at the end of the run, DriverError for an Err.  The  *)
(* result is the mirror, and Ok, the DriverError or the MotorsError with   *)
(* the field of each motor.                                                *)
Motors_move_all_updates_always(pos, m, early, status) ==
    [pos |-> m,
     ret |-> IF early THEN "DriverError"
             ELSE IF \A a \in Axes : status[a] = "Ready" THEN "Ok"
             ELSE "MotorsError",
     me |-> status]

Motors_move_all(pos, m, early, status) ==
    IF early
    THEN [pos |-> pos, ret |-> "DriverError", me |-> status]
    ELSE IF {a \in Axes : status[a] # "Ready"} = {}
    THEN [pos |-> m, ret |-> "Ok", me |-> status]
    ELSE [pos |-> pos, ret |-> "MotorsError",
          me |-> [x |-> IF status.x = "PosError" THEN "PositionError"
                        ELSE IF status.x = "Ready" THEN "None" ELSE status.x,
                  y |-> IF status.y = "PosError" THEN "PositionError"
                        ELSE IF status.y = "Ready" THEN "None" ELSE status.y,
                  z |-> IF status.z = "PosError" THEN "PositionError"
                        ELSE IF status.z = "Ready" THEN "None" ELSE status.z,
                  e |-> IF status.e = "PosError" THEN "PositionError"
                        ELSE IF status.e = "Ready" THEN "None" ELSE status.e]]

(* a move_all call: to the origin or to a position away from it, with      *)
(* every outcome of the drivers                                            *)
MotorsMoveAll ==
    /\ motors.n < MaxMotorCalls
    /\ \E m \in {[x |-> 0, y |-> 0, z |-> 0], [x |-> 1, y |-> 2, z |-> 3]},
          early \in BOOLEAN :
          \E sx, sy, sz \in IF early THEN {"Ready"}
                            ELSE {"Ready", "PosError", "DriverError"},
             se \in IF early THEN {"Ready"} ELSE {"Ready", "PosError"} :
             \E status \in {[x |-> sx, y |-> sy, z |-> sz, e |-> se]} :
                \E r \in {Motors_move_all(motors.pos, m, early, status)} :
                   motors' = [pos |-> r.pos, mode |-> motors.mode,
                              n |-> motors.n + 1,
                              last |-> [op |-> "move_all", before |-> motors.pos,
                                        m |-> m, early |-> early,
                                        status |-> status, ret |-> r.ret,
                                        me |-> r.me]]
    /\ UNCHANGED <<sysVars, fdVars, hotend_temp, gdVars, refVars, offVars,
                   exitVars>>

(* Motors::reference_motor: the eight driver calls in their order (to      *)
(* ExternalReference, the five of speed, ramps and jerks, start_motor, to  *)
(* Absolute).  fail_at is the call that returns a DriverError, 0 for none; *)
(* a call that fails changes nothing, and `?` returns at once.  status is  *)
(* what the run ends with.                                                 *)
reference_motor(mode, fail_at, status) ==
    [mode |-> IF fail_at = 0 THEN "Absolute"
              ELSE IF fail_at = 1 THEN mode
              ELSE "ExternalReference",
     ret |-> IF fail_at # 0 THEN "DriverError"
             ELSE IF status = "Ready" THEN "Ok"
             ELSE "motor error while referencing"]

(* reference_x, reference_y, reference_z of make_reference_motor!: the     *)
(* mirror of the axis is set to 0 after reference_motor returned Ok        *)
MotorsReference ==
    /\ motors.n < MaxMotorCalls
    /\ \E axis \in {"x", "y", "z"}, fail_at \in 0..8 :
          \E status \in IF fail_at = 0 THEN {"Ready", "PosError"} ELSE {"Ready"} :
             \E r \in {reference_motor(motors.mode[axis], fail_at, status)} :
                motors' = [pos |-> IF r.ret = "Ok"
                                   THEN [motors.pos EXCEPT ![axis] = 0]
                                   ELSE motors.pos,
                           mode |-> [motors.mode EXCEPT ![axis] = r.mode],
                           n |-> motors.n + 1,
                           last |-> [op |-> "reference", before |-> motors.pos,
                                     axis |-> axis, fail_at |-> fail_at,
                                     status |-> status, ret |-> r.ret]]
    /\ UNCHANGED <<sysVars, fdVars, hotend_temp, gdVars, refVars, offVars,
                   exitVars>>

(* A Motors on its own: moves and reference runs in any order *)
MotorsSpec == Init /\ [][MotorsMoveAll \/ MotorsReference]_vars

(* The heaters on their own: callers of PiCtrl that set targets in and out *)
(* of the ranges and wait for the hotend, and the Pi thread.               *)
PiSetSpec ==
    /\ Init
    /\ [][
            \/ \E t \in TargetInputs(HotendLower, HotendUpper) : PiTrySetHotendTarget(t)
            \/ \E t \in TargetInputs(BedLower, BedUpper) : PiTrySetBedTarget(t)
            \/ PiTryWaitHotendTarget
            \/ PiRecv
            \/ PiTick
       ]_vars

(* A job of the file "heat" that is left alone: it sets the hotend target, *)
(* waits for it, and the hotend heats up.                                  *)
HeatSpec ==
    /\ Init
    /\ [][
            \/ HwTryPrint("heat")
            \/ ExecCtrlRecv
            \/ ExecPoll
            \/ ExecNext
            \/ ExecAction
            \/ ExecWaitReply
            \/ DecStep
            \/ PiRecv
            \/ PiTick
            \/ HotendHeats
       ]_vars

Spec == Init /\ [][Next]_vars

(* The threads are scheduled by the operating system: each of them takes   *)
(* its next step if it stays able to.  Calls of the API are not forced.    *)
Fairness ==
    /\ WF_vars(ExecutorStep)
    /\ WF_vars(DecStep)
    /\ WF_vars(DecExit)
    /\ WF_vars(PiStep)
    /\ WF_vars(EStopWorker)

FairSpec == Spec /\ Fairness

(* Emergency stops: a job of the file "heat" (a move, then heating and the *)
(* wait for the temperature), estop() calls and the EStop worker.  No      *)
(* stop() is called, so the decoder gets no exit message and is never      *)
(* joined: DecExit and ExecJoined cannot occur.                            *)
EStopSpec ==
    /\ Init
    /\ [][
            \/ HwTryPrint("heat")
            \/ HwEStop
            \/ EStopWorker
            \/ ExecCtrlRecv
            \/ ExecPoll
            \/ ExecNext
            \/ ExecAction
            \/ ExecWaitReply
            \/ DecStep
            \/ PiRecv
            \/ PiTick
       ]_vars

EStopFairSpec == EStopSpec /\ Fairness

----------------------------------------------------------------------------
(* Properties *)

(* C1: the job state of HwCtrl changes only along the edges Stopped ->     *)
(* Printing by a successful try_print, Printing -> Paused by try_pause,    *)
(* Paused -> Printing by try_play, and Printing or Paused -> Stopped by    *)
(* stop() or by the end of the job; no step changes it in any other way.   *)
C1_Theorem ==
    [][hw_state' # hw_state =>
        \/ /\ hw_state = "Stopped" /\ hw_state' = "Printing"
           /\ \E p \in Paths : HwTryPrint(p)
           /\ api_ret' = "Ok"
        \/ /\ hw_state = "Printing" /\ hw_state' = "Paused"
           /\ HwTryPause
        \/ /\ hw_state = "Paused" /\ hw_state' = "Printing"
           /\ HwTryPlay
        \/ /\ hw_state \in {"Printing", "Paused"} /\ hw_state' = "Stopped"
           /\ \/ HwStop
              \/ exec_job # 0 /\ exec_job' = 0 /\ UNCHANGED ctrl_chan]_vars

(* a second job was started after the first was stopped, and was paused *)
C1_Witness == hw_state = "Paused" /\ njobs = 2 /\ stopped_upto = 1

(* C2: after a stop() call state_info reports Stopped, and the Executor    *)
(* starts no further action of a job for which stop() has been called,     *)
(* wherever the Executor and the decoder were at the call.                 *)
C2_Claim ==
    /\ stopped_upto = njobs => state_info = "Stopped"
    /\ exec_pc \in {"exec", "wait"} => ~exec_cur.after_stop

(* C3: while the Executor's job is Paused it executes no action pulled     *)
(* from the decoder (a Pause is processed between two actions, so none is  *)
(* in flight then).                                                        *)
C3_Claim == exec_state = "Paused" => exec_pc \notin {"exec", "wait"}

(* no thread of the print path can take a step that changes anything *)
ThreadsAtRest == ~ENABLED <<ThreadsNext>>_vars

(* C4: when the decoder of the running job has reached the end of the file *)
(* or yielded an error and stop() has not been called for that job, the    *)
(* job ends by itself: once the threads are at rest the Executor is        *)
(* Stopped with the decoder state reset and state_info reports Stopped.    *)
C4_Claim ==
    (ended_upto > stopped_upto /\ ThreadsAtRest)
        => /\ exec_state = "Stopped"
           /\ exec_dstate = DecoderState_new
           /\ state_info = "Stopped"

(* C5: after an estop() call during a job the motor estop is issued, the   *)
(* heaters are commanded off, the job state is Stopped and an error is on  *)
(* the error bus: all of it holds once the worker has handled the call and *)
(* the threads are at rest.                                                *)
C5_Claim ==
    (estop_issued # <<>> /\ estop_in_job /\ ThreadsAtRest)
        => /\ heaters_off
           /\ state_info = "Stopped"
           /\ errors # <<>>

C7_Claim ==
    /\ exec_panic # "TargetChanged"
    /\ (exec_pc = "wait" /\ ~exec_cur.after_stop
           /\ \E i \in DOMAIN ctrl_chan : ctrl_chan[i].t = "Stop")
         => ~ThreadsAtRest

C9_Theorem ==
    [][/\ (~is_stopped(hw_state) /\ \E p \in Paths : HwTryPrint(p))
          => /\ api_ret' = "NotStopped"
             /\ UNCHANGED <<hw_state, hw_job, ctrl_chan, manual_chan>>
       /\ (is_stopped(hw_state) /\ \E p \in Paths : ~CanOpen(p) /\ HwTryPrint(p))
          => /\ api_ret' = "IoError"
             /\ hw_state' = "Stopped"
             /\ UNCHANGED <<hw_state, hw_job, ctrl_chan, manual_chan>>
       /\ (is_stopped(hw_state) /\ (HwTryPlay \/ HwTryPause))
          => /\ api_ret' = "Stopped"
             /\ UNCHANGED <<hw_state, hw_job, ctrl_chan, manual_chan>>]_vars

(* a try_print of a file that cannot be opened was rejected after a job    *)
(* had been run and stopped                                                *)
C9_Witness == api_ret = "IoError" /\ njobs = 1 /\ hw_state = "Stopped"

(* C10: when a MoveAll of a job has failed, the error is on the error bus  *)
(* and the Executor executes no later action of that job.                  *)
C10_Claim ==
    /\ failed_upto # 0 => \E i \in DOMAIN errors : errors[i] = "MotorsError"
    /\ exec_pc \in {"exec", "wait"} => exec_job # failed_upto

(* the actions the decoder of a job produces for the file p: the codes of  *)
(* all its lines, decoded in order                                         *)
Produced(p) ==
    DecodeCodes(try_n(FileOf(p), 1, Len(FileOf(p))).codes,
                DecoderState_new, <<>>).buf

(* C12: within a job the n-th action the Executor executes is the n-th     *)
(* action its decoder produced (same order, none twice, none made up), and *)
(* no action is in flight when the Executor is not inside exec(), so that  *)
(* it asks for the next action only after the previous one has returned.   *)
C12_Theorem ==
    /\ exec_pc \in {"exec", "wait"} =>
          /\ exec_count \in 1..Len(Produced(dec_path))
          /\ exec_cur.kind = Produced(dec_path)[exec_count].kind
          /\ exec_cur.line = Produced(dec_path)[exec_count].line
          /\ exec_cur.val = Produced(dec_path)[exec_count].val
    /\ exec_pc \notin {"exec", "wait"} => exec_cur = NoAction

(* the wait of the M109 on the second line of "heat" is executed as third  *)
(* action of the second job                                                *)
C12_Witness ==
    /\ exec_job = 2 /\ dec_path = "heat"
    /\ exec_count = 3 /\ exec_pc = "wait"

(* C20: while a job is Printing or Paused, state_info() reports no line of *)
(* the job before it: until the Executor has taken the first action of the *)
(* job, the line is the reset one.                                         *)
C20_Claim ==
    (hw_state \in {"Printing", "Paused"} /\ exec_job = hw_job
        /\ exec_count = 0) => state_info_line = 0

----------------------------------------------------------------------------
(* Properties of the heaters *)

(* C13: a WaitHotendTarget whose target was not set since it was parked is *)
(* answered Ok once the hotend has reached the target: while such a waiter *)
(* is parked and the temperature is at the target, the threads are not at  *)
(* rest, the Pi thread still has the answer to give.                       *)
C13_Claim ==
    ("hotend" \in pi_waiting /\ hotend_target # 0 /\ pi_chan = <<>>
        /\ hotend_temp = hotend_target) => ~ThreadsAtRest

(* C14: the stored target of each heater is 0 (off) or within the limits   *)
(* of the heater, and a try_set_hotend_target / try_set_bed_target with a  *)
(* target outside the limits returns TargetOutOfBounds, sends nothing and  *)
(* leaves the targets and the parked waiters as they are.                  *)
C14_Theorem ==
    /\ [](/\ hotend_target = 0
             \/ (HotendLower <= hotend_target /\ hotend_target <= HotendUpper)
          /\ bed_target = 0
             \/ (BedLower <= bed_target /\ bed_target <= BedUpper))
    /\ [][/\ \A t \in TargetInputs(HotendLower, HotendUpper) :
               (PiTrySetHotendTarget(t)
                   /\ t.some /\ (t.t < HotendLower \/ t.t > HotendUpper))
               => /\ api_ret' = "TargetOutOfBounds"
                  /\ UNCHANGED <<pi_chan, hotend_target, bed_target,
                                 pi_waiting, exec_reply>>
          /\ \A t \in TargetInputs(BedLower, BedUpper) :
               (PiTrySetBedTarget(t)
                   /\ t.some /\ (t.t < BedLower \/ t.t > BedUpper))
               => /\ api_ret' = "TargetOutOfBounds"
                  /\ UNCHANGED <<pi_chan, hotend_target, bed_target,
                                 pi_waiting, exec_reply>>]_vars

(* a set was rejected while a waiter was parked and both targets were set *)
C14_Witness ==
    /\ api_ret = "TargetOutOfBounds"
    /\ "hotend" \in pi_waiting
    /\ hotend_target = HotendUpper
    /\ bed_target = BedLower

----------------------------------------------------------------------------
(* Properties of the FileDecoder and the Parser *)

IsAction(item) == item.kind \notin {"error", "none", "panic"}

(* C11: when the parser fails on a line, or a line cannot be read, next()  *)
(* returns that failure as an error: the call in which the parser failed   *)
(* does not return None, which is what the end of the file returns.        *)
C11_Claim ==
    fd.prev_err => (fd_out # <<>> /\ fd_out[Len(fd_out)].kind = "error")

(* C18: the span lines of the actions a FileDecoder emits never decrease,  *)
(* across chunks of try_n and for codes that emit several actions.         *)
C18_Theorem ==
    \A i, j \in DOMAIN fd_out :
        (i < j /\ IsAction(fd_out[i]) /\ IsAction(fd_out[j]))
            => fd_out[i].line <= fd_out[j].line

(* both actions of an M109 and a move read in a later chunk were emitted *)
C18_Witness ==
    /\ \E i \in DOMAIN fd_out : fd_out[i].kind = "WaitHotendTarget"
    /\ \E j \in DOMAIN fd_out :
          fd_out[j].kind = "MoveAll" /\ fd_out[j].src > FILE_BUFSIZE

(* C19: an action emitted from the k-th line of the file (k from 1) has    *)
(* span line k.                                                            *)
C19_Claim ==
    \A i \in DOMAIN fd_out : IsAction(fd_out[i]) => fd_out[i].line = fd_out[i].src

(* The limits of the axis a in the configuration of the Decoder. *)
WithinLimits(m, cfg, a) ==
    /\ m.max_frequency <= cfg[a].speed_limit
    /\ m.acceleration <= cfg[a].accel_limit
    /\ m.deceleration <= cfg[a].decel_limit
    /\ m.acceleration_jerk <= cfg[a].accel_jerk_limit
    /\ m.deceleration_jerk <= cfg[a].decel_jerk_limit

(* C16: in every MoveAll the Decoder emits, the max_frequency, the         *)
(* acceleration, the deceleration and the two jerks of X, Y, Z and E are   *)
(* at most the speed, accel, decel, accel-jerk and decel-jerk limit of     *)
(* that axis, whatever the direction of the move and also when some axes   *)
(* do not move.                                                            *)
C16_Theorem ==
    gd_out.kind = "MoveAll" =>
        \A a \in Axes : WithinLimits(gd_out.movement[a], config(gd.cfg), a)

(* a move with X at rest, Z going down and the extruder pulling back, at a *)
(* feedrate that the limits cut: Y runs at its speed limit                 *)
C16_Witness ==
    /\ gd_out.kind = "MoveAll"
    /\ gd.cfg = "tight"
    /\ ~gd_out.code.x.some
    /\ gd_out.code.z = Some(-1)
    /\ gd_out.code.e = Some(-2)
    /\ gd_out.code.f = Some(6000)
    /\ gd_out.movement.y.max_frequency = MotorsTight.y.speed_limit
    /\ gd_out.movement.x.acceleration = MotorsTight.x.accel_limit

PosInBounds ==
    /\ gd.state.actual.x >= 0 /\ gd.state.actual.x <= config(gd.cfg).x.limit
    /\ gd.state.actual.y >= 0 /\ gd.state.actual.y <= config(gd.cfg).y.limit
    /\ gd.state.actual.z >= gd.state.actual.z_hotend_location
    /\ gd.state.actual.z <= 0

(* the position the move code would take the axis to *)
Target(axis) == gd.state.actual[axis] + relative_xyz(gd.state, gd_out'.code, axis)

LeavesBounds ==
    \/ Target("x") < 0 \/ Target("x") > config(gd.cfg).x.limit
    \/ Target("y") < 0 \/ Target("y") > config(gd.cfg).y.limit
    \/ Target("z") < gd.state.actual.z_hotend_location \/ Target("z") > 0

(* C15: whatever the sequence of codes and coordinate modes, actual_x      *)
(* stays in [0, x limit], actual_y in [0, y limit] and actual_z in         *)
(* [z_hotend_location, 0]; a G0 / G1 that would take an axis out of its    *)
(* range returns PosOutOfBounds, emits no MoveAll and leaves the actual    *)
(* position as it was.                                                     *)
C15_Theorem ==
    /\ []PosInBounds
    /\ [][(/\ gd_hist'.n = gd_hist.n + 1
           /\ gd_out'.code.mnemonic \in {"G0", "G1"}
           /\ ~NoArguments(gd_out'.code)
           /\ LeavesBounds)
          => (/\ gd_out'.kind = "PosOutOfBounds"
              /\ gd_out'.movement = NoMovement
              /\ gd'.state.actual = gd.state.actual)]_vars

(* after a move that was accepted and reached the end of the X axis, a     *)
(* move to X-1 is rejected                                                 *)
C15_Witness ==
    /\ gd_out.kind = "PosOutOfBounds"
    /\ gd.state.actual.x = config(gd.cfg).x.limit
    /\ gd.state.actual.steps_x > 0
    /\ gd_out.code.x = Some(-1)

(* C17: the X, Y and Z distance of an emitted MoveAll is the sum of the    *)
(* signed step deltas of the moves accepted so far, the distance of the    *)
(* extruder is the absolute value of its step delta, and its direction is  *)
(* reversed from positive_direction exactly when that delta is negative.   *)
C17_Claim ==
    gd_out.kind = "MoveAll" =>
        /\ gd_out.movement.x.distance = gd_hist.steps_x
        /\ gd_out.movement.y.distance = gd_hist.steps_y
        /\ gd_out.movement.z.distance = gd_hist.steps_z
        /\ gd_out.movement.e.distance
               = (IF gd_hist.e < 0 THEN -gd_hist.e ELSE gd_hist.e)
        /\ gd_out.movement.e.direction
               = (IF gd_hist.e < 0 THEN reverse(config(gd.cfg).e_positive_direction)
                  ELSE config(gd.cfg).e_positive_direction)

(* C21: while the job state is Printing or Paused, try_reference_axis and  *)
(* try_reference_z_hotend return NotStopped and put nothing into the       *)
(* manual channel; and the Executor takes a manual message only while its  *)
(* own state is Stopped and it holds no job.                               *)
C21_Theorem ==
    /\ [][(ref_call'.n = ref_call.n + 1 /\ hw_state \in {"Printing", "Paused"})
           => (/\ api_ret' = "NotStopped"
               /\ ref_call'.ret = "NotStopped"
               /\ manual_chan' = manual_chan)]_vars
    /\ [][Len(manual_chan') < Len(manual_chan)
           => (exec_state = "Stopped" /\ exec_job = 0)]_vars

(* a reference call was accepted before the job and is still pending while *)
(* the Executor holds the job paused; a second call has been refused       *)
C21_Witness ==
    /\ hw_state = "Paused"
    /\ exec_state = "Paused"
    /\ exec_job # 0
    /\ manual_chan # <<>>
    /\ ref_call.n = 2
    /\ ref_call.ret = "NotStopped"

(* C22: try_reference_axis accepts the parameters exactly when the speed   *)
(* is at most speed_limit, accel_decel at most accel_limit and decel_limit *)
(* and the jerk at most accel_jerk_limit and decel_jerk_limit of the axis; *)
(* else it returns OutOfBoundsError.                                       *)
C22_Claim ==
    LET cfg == config("tight")[ref_call.axis]
        parameters == ref_call.parameters
    IN  ref_call.op = "try_reference_axis"
        /\ ref_call.ret \in {"Ok", "OutOfBounds"}
        => (ref_call.ret = "Ok"
            <=> /\ parameters.speed.some
                      => parameters.speed.t <= cfg.speed_limit
                /\ parameters.accel_decel.some
                      => /\ parameters.accel_decel.t <= cfg.accel_limit
                         /\ parameters.accel_decel.t <= cfg.decel_limit
                /\ parameters.jerk.some
                      => /\ parameters.jerk.t <= cfg.accel_jerk_limit
                         /\ parameters.jerk.t <= cfg.decel_jerk_limit)

(* C23: once a ReferenceZAxisHotend has been processed, and until the Z    *)
(* axis moves again, pos_info().z is 0 and the DecoderState that the next  *)
(* job decodes with has the raw Z position in mm as z_hotend_location.     *)
C23_Claim ==
    z_hotend_referenced
    => (/\ pos_info_z = 0
        /\ dstate_z_hotend_location = Z_steps_to_mm(shared_pos_z))

(* C24: the reset of the Decoder state at a job stop clears the feedrate,  *)
(* sets the XYZ mode to Absolute and the E mode to Relative, sets the      *)
(* programmed X, Y and Z to the actual X, Y and Z, and leaves the actual   *)
(* position and the accumulated steps as they were.                        *)
C24_Claim ==
    [][gd_out'.kind = "reset"
       => (/\ gd'.state.gcode.feedrate = None
           /\ gd'.state.gcode.xyz_coord_mode = "Absolute"
           /\ gd'.state.gcode.e_coord_mode = "Relative"
           /\ gd'.state.gcode.x = gd.state.actual.x
           /\ gd'.state.gcode.y = gd.state.actual.y
           /\ gd'.state.gcode.z = gd.state.actual.z
           /\ gd'.state.actual = gd.state.actual)]_vars

(* C25: only the legal transitions are carried out: a call of HwCtrl that  *)
(* is accepted, which is when it sends its message to the Executor, is a   *)
(* try_print while Stopped, a try_pause while Printing, a try_play while   *)
(* Paused, or a stop; try_play while Printing and try_pause while Paused   *)
(* are refused.                                                            *)
C25_Claim ==
    [][Len(ctrl_chan') = Len(ctrl_chan) + 1
       => LET msg == ctrl_chan'[Len(ctrl_chan')]
          IN  /\ msg.t = "Print" => hw_state = "Stopped"
              /\ msg.t = "Pause" => hw_state = "Printing"
              /\ msg.t = "Play" => hw_state = "Paused"]_vars

(* C26: a call that is refused with a StateError, an OutOfBoundsError or a *)
(* TargetOutOfBounds leaves the errors that were posted as they are.       *)
C26_Theorem ==
    [][((api_ret' # api_ret \/ ref_call' # ref_call)
        /\ api_ret' \in {"NotStopped", "Stopped", "OutOfBounds",
                         "TargetOutOfBounds"})
       => errors' = errors]_vars

(* a reference run with a speed above the limit has been refused after a   *)
(* failed move had posted its error                                        *)
C26_Witness ==
    /\ errors # <<>>
    /\ api_ret = "OutOfBounds"
    /\ ref_call.ret = "OutOfBounds"

(* C27: HwCtrl::exit tears down in order: the Pi thread is told to exit    *)
(* only after the Executor thread has ended, and Exit is sent to the EStop *)
(* worker only after the Pi thread has ended, in every job state and with  *)
(* other handles alive.                                                    *)
C27_Claim ==
    /\ ((\E i \in DOMAIN pi_chan : pi_chan[i].t = "Exit") \/ pi_pc = "exited")
          => ExecDead
    /\ ((\E i \in DOMAIN estop_chan : estop_chan[i].t = "Exit")
           \/ estop_pc = "exited")
          => pi_pc = "exited"

C29_Claim ==
    gd_hist.n = 0
    \/ LET m == gd_out.code.mnemonic
           args == gd_out.code.arguments
           supported ==
               CASE m \in {"G0", "G1"} -> {"X", "Y", "Z", "E", "F"}
                 [] m = "G4" -> {"P", "S"}
                 [] m = "G28" -> {"X", "Y"}
                 [] m = "G92" -> {"X", "Y", "Z", "E"}
                 [] m \in {"M104", "M109", "M140", "M190"} -> {"S"}
                 [] OTHER -> {}
           unknown == \E i \in DOMAIN args : args[i] \notin supported
           repeated == \E i, j \in DOMAIN args : i < j /\ args[i] = args[j]
           missing ==
               \/ /\ m \in {"G0", "G1", "G4", "G92", "M104", "M109", "M140",
                             "M190"}
                  /\ args = <<>>
               \/ /\ m \in {"G0", "G1"}
                  /\ \A i \in DOMAIN args : args[i] # "F"
       IN  /\ (unknown /\ ~repeated /\ ~missing)
                 => gd_out.kind = "UnknownArgument"
           /\ (repeated /\ ~unknown /\ ~missing)
                 => gd_out.kind = "DuplicateArgument"
           /\ (missing /\ ~unknown /\ ~repeated)
                 => gd_out.kind = "MissingArguments"
           /\ (unknown \/ repeated \/ missing)
                 => /\ gd_out.kind \in {"UnknownArgument", "DuplicateArgument",
                                        "MissingArguments"}
                    /\ gd_out.movement = <<>>

(* C30: the Pi thread handles set-point changes and waits in the order     *)
(* they were issued.  In a job of "heat" the wait of M109 is parked only   *)
(* after the HotendTarget issued before it was handled: while it is parked *)
(* the target is the one of that M109 and no set of the hotend is pending, *)
(* it is never answered TargetChanged, and when it is answered Ok the      *)
(* target is still the new one.                                            *)
C30_Theorem ==
    /\ exec_reply # "TargetChanged"
    /\ "hotend" \in pi_waiting
         => /\ exec_pc = "wait"
            /\ Produced(dec_path)[exec_count - 1].kind = "HotendTarget"
            /\ hotend_target = Produced(dec_path)[exec_count - 1].val
            /\ \A i \in DOMAIN pi_chan : pi_chan[i].t # "SetHotendTarget"
    /\ exec_reply = "Ok"
         => /\ exec_pc = "wait"
            /\ hotend_target = Produced(dec_path)[exec_count - 1].val

(* the wait of M109 is parked in the Pi thread, which has stored the       *)
(* target of the M109                                                      *)
C30_Witness ==
    /\ "hotend" \in pi_waiting
    /\ exec_pc = "wait"
    /\ exec_cur.kind = "WaitHotendTarget"
    /\ hotend_target = 200

(* C31: the Executor thread never panics on a control message: whenever it *)
(* takes a Play or a Pause from the control channel its own state is       *)
(* Printing or Paused, also when the job ended by itself while try_play or *)
(* try_pause was called.                                                   *)
C31_Claim ==
    /\ exec_panic # "can't continue, printer is stopped"
    /\ (/\ exec_pc \in {"loop", "select"}
        /\ ctrl_chan # <<>>
        /\ Head(ctrl_chan).t \in {"Play", "Pause"})
         => exec_state \in {"Printing", "Paused"}

(* C32: the job state of HwCtrl and the state of the Executor agree:       *)
(* whenever the control channel of the Executor is empty and the Executor  *)
(* is between two iterations of its loop, both are Stopped, both Printing  *)
(* or both Paused.                                                         *)
C32_Claim ==
    (ctrl_chan = <<>> /\ exec_pc \in {"loop", "select"})
        => hw_state = exec_state

(* C33: stopping a job on the Executor terminates.  The decoder thread of  *)
(* a job gets one exit message, State or Exit, and no second one: at most  *)
(* one is pending, none is pending for a decoder that has ended, and while *)
(* the Executor joins the decoder the message is either pending or taken.  *)
(* The join never hangs: the decoder can take the message wherever it is   *)
(* (ready to send, behind a full channel, at the end of the file), and     *)
(* then the join returns; a stop hands the state of the decoder back, and  *)
(* the Executor keeps it, reset, as it becomes Stopped.                    *)
C33_Theorem ==
    /\ [](/\ Len(dec_exit_chan) <= 1
          /\ dec_pc \in {"none", "done"} => dec_exit_chan = <<>>
          /\ exec_pc = "join"
               => /\ dec_pc \in {"run", "eof", "done"}
                  /\ (dec_exit_chan # <<>>) # (dec_pc = "done")
                  /\ dec_exit_chan # <<>>
                       => Head(dec_exit_chan) =
                             (IF exec_then = "stopped" THEN "State" ELSE "Exit")
                  /\ ENABLED DecExit \/ ENABLED ExecJoined)
    /\ [][(exec_pc = "join" /\ exec_pc' # "join" /\ exec_then = "stopped")
            => /\ exec_state' = "Stopped"
               /\ exec_dstate' = DecoderState_reset(dec_state)
               /\ dec_pc' = "none"]_vars

(* the Executor has sent State and joins a decoder that is in its loop     *)
(* behind a full action channel                                            *)
C33_Witness ==
    /\ exec_pc = "join"
    /\ dec_exit_chan = <<"State">>
    /\ dec_pc = "run"
    /\ Len(gcode_chan) = BUFSIZE

(* C34: move_all sets the raw-step mirror of X, Y and Z to the commanded   *)
(* positions if and only if every motor reported success.  If a motor      *)
(* reports PosError or a driver error the mirror is unchanged, and the     *)
(* MotorsError has Some for exactly the motors that failed, so for at      *)
(* least one.                                                              *)
C34_Theorem ==
    (motors.last.op = "move_all" /\ ~motors.last.early)
        => LET l == motors.last
               failed == {a \in Axes : l.status[a] # "Ready"}
           IN  /\ failed = {} => (l.ret = "Ok" /\ motors.pos = l.m)
               /\ failed # {}
                    => /\ l.ret = "MotorsError"
                       /\ motors.pos = l.before
                       /\ \A a \in Axes : (l.me[a] # "None") = (a \in failed)
                       /\ \E a \in Axes : l.me[a] # "None"

(* a move away from the position of the mirror failed on Y and on the     *)
(* extruder only                                                           *)
C34_Witness ==
    /\ motors.last.op = "move_all"
    /\ motors.last.ret = "MotorsError"
    /\ motors.last.status = [x |-> "Ready", y |-> "DriverError", z |-> "Ready",
                             e |-> "PosError"]
    /\ motors.last.m # motors.last.before

(* C35: a reference run of an axis sets the mirror of the axis to 0 if and *)
(* only if the run ended with status Ready, and on every way out of it the *)
(* driver of the axis is back in Absolute positioning mode, so that no     *)
(* move_all runs with a driver in ExternalReference mode.                  *)
C35_Claim ==
    /\ motors.last.op = "reference"
         => LET l == motors.last
            IN  /\ (l.fail_at = 0 /\ l.status = "Ready")
                     => motors.pos = [l.before EXCEPT ![l.axis] = 0]
                /\ ~(l.fail_at = 0 /\ l.status = "Ready")
                     => motors.pos = l.before
                /\ motors.mode[l.axis] = "Absolute"
    /\ motors.last.op = "move_all"
         => \A a \in {"x", "y", "z"} : motors.mode[a] = "Absolute"

(* C36: at every end of a job the position the Decoder state keeps for the *)
(* next job is the position of the last MoveAll the Executor executed.     *)
(* While no move has failed and no reference run was made that position is *)
(* the one of the raw-step mirror: when the Executor is Stopped between    *)
(* two iterations of its loop, the Z of its Decoder state is the Z of the   *)
(* mirror.                                                                 *)
C36_Claim ==
    (/\ exec_state = "Stopped"
     /\ exec_pc \in {"loop", "select"}
     /\ errors = <<>>
     /\ ref_call.n = 0)
        => exec_dstate.z = shared_pos_z

(* C37: if decoding fails at some code of the file, every action produced  *)
(* from the codes before it is delivered to the Executor before the error, *)
(* and no action of a later code is delivered: at the step in which the    *)
(* Executor takes the GCodeError of its job from the decoder it has taken  *)
(* exactly the actions of the codes before the failing one.                *)
C37_Claim ==
    [][(exec_pc = "next" /\ errors' = Append(errors, "GCodeError"))
          => exec_count = Len(Produced(dec_path))]_vars

(* C38: a manual reference action accepted while Stopped is executed by    *)
(* the Executor before the first action of any job started by a later      *)
(* try_print.  Reference calls are refused from the try_print of a job to  *)
(* its stop, so whatever the manual channel holds during a job that was    *)
(* not stopped was accepted before its try_print: once the Executor has    *)
(* taken an action of such a job the manual channel is empty.              *)
C38_Claim ==
    (exec_job # 0 /\ exec_job > stopped_upto /\ exec_count >= 1)
        => manual_chan = <<>>

(* C39: in a G0/G1 an axis whose letter is absent does not move, in        *)
(* Absolute as well as in Relative mode: when a move was decoded into a    *)
(* MoveAll, the actual position of every axis of X, Y and Z without a      *)
(* letter in the code, and its absolute step target in the MoveAll, are    *)
(* what they were before the move.                                         *)
C39_Claim ==
    [][gd_out'.kind = "MoveAll" =>
          /\ ~gd_out'.code.x.some =>
                 /\ gd'.state.actual.x = gd.state.actual.x
                 /\ gd_out'.movement.x.distance = gd.state.actual.steps_x
          /\ ~gd_out'.code.y.some =>
                 /\ gd'.state.actual.y = gd.state.actual.y
                 /\ gd_out'.movement.y.distance = gd.state.actual.steps_y
          /\ ~gd_out'.code.z.some =>
                 /\ gd'.state.actual.z = gd.state.actual.z
                 /\ gd_out'.movement.z.distance = gd.state.actual.steps_z
      ]_vars

(* C40: programmed and actual position stay in step: over every accepted   *)
(* G0/G1, in Absolute and in Relative mode, the difference between the     *)
(* programmed and the actual coordinate of each of X, Y and Z is           *)
(* unchanged, so that in Relative mode the delta of an axis is added to    *)
(* the programmed coordinate of that axis.                                 *)
C40_Claim ==
    [][gd_out'.kind = "MoveAll" =>
          /\ gd'.state.gcode.x - gd'.state.actual.x
                 = gd.state.gcode.x - gd.state.actual.x
          /\ gd'.state.gcode.y - gd'.state.actual.y
                 = gd.state.gcode.y - gd.state.actual.y
          /\ gd'.state.gcode.z - gd'.state.actual.z
                 = gd.state.gcode.z - gd.state.actual.z
      ]_vars

====
